---- MODULE Spec2Model ----
(***************************************************************************)
(* A model of the GOP Attendance Tracker scripts: the numeric id matcher   *)
(* (MatchAssignUniqueCodes.js), the statistics calculation                 *)
(* (calculateAttendanceStats), the writer of the Attendance Stats sheet    *)
(* (updateAttendanceStatsSheet), the activity classifier                   *)
(* (updateActivityLevels), the roster filter (populateRegistrationList)    *)
(* and the sheets they read.                                               *)
(*                                                                         *)
(* A JavaScript string is a sequence of one-character strings.  A sheet    *)
(* cell is a record [t, v, int, s]: t is the JavaScript type of the value  *)
(* getValues() returned; for a number, v is its integer part and int says  *)
(* whether it is an integer (int = FALSE stands for v + 1/2); for a        *)
(* string, s holds its characters.                                         *)
(***************************************************************************)
EXTENDS Integers, Sequences, FiniteSets, TLC

VARIABLES
  codeValue,         \* extractNumericBel: the argument of the call under test
  extracted,         \* extractNumericBel: [done, val], val the value returned
  dData,             \* Directory sheet: [width, rows], rows below the header
  eData,             \* Event Attendance sheet: [width, rows]
  sData,             \* Service Attendance sheet: [width, rows]
  pc,                \* position of the current run of matchOrAssignBelCodes
  belMap,            \* Map normalized name -> numeric id
  allUsedCodes,      \* Set of numeric ids found or generated
  attendanceDataRaw, \* eData rows followed by sData rows
  highestFoundNum,
  codeCounter,
  rowIdx,            \* forEach position in attendanceDataRaw (Step 5)
  results,           \* formatted rows pushed so far
  genLog,            \* history: each generateBEL return with the set it saw
  now,               \* the time value new Date() gives calculateAttendanceStats
  summary,           \* the rows calculateAttendanceStats returned
  run,               \* history: 1 in the first run of the pipeline, 2 in the second
  appended,          \* history: a row was appended between the two runs
  prevMap,           \* history: the ids the first run resolved, by match key
  prevSummary,       \* history: the rows the first run returned
  sources,           \* which of the required sources exist
  loader,            \* the file whose getDataFromSheets the project runs
  statsSheet,        \* Attendance Stats sheet: rows below the header, A to L
  activeMembersData, \* Sunday Registration sheet: the rows from row 6 down
  sundayService,     \* the sheet named Sunday Service: rows below the header
  serviceDateValue,  \* cell B2 of the Sunday Registration sheet
  submits            \* history: calls of submitRegistrationAttendance so far

----------------------------------------------------------------------------
(* Strings and cells *)

NULL == -1

Digits == {"0", "1", "2", "3", "4", "5", "6", "7", "8", "9"}

DigitVal(c) ==
  CASE c = "0" -> 0 [] c = "1" -> 1 [] c = "2" -> 2 [] c = "3" -> 3
    [] c = "4" -> 4 [] c = "5" -> 5 [] c = "6" -> 6 [] c = "7" -> 7
    [] c = "8" -> 8 [] c = "9" -> 9

Whitespace == {" "}

Num(n) == [t |-> "number", v |-> n, int |-> TRUE, s |-> <<>>]
Half(n) == [t |-> "number", v |-> n, int |-> FALSE, s |-> <<>>]
Str(chars) == [t |-> "string", v |-> 0, int |-> FALSE, s |-> chars]
Bool == [t |-> "boolean", v |-> 0, int |-> FALSE, s |-> <<>>]
Blank == Str(<<>>)

RECURSIVE TrimStart(_)
TrimStart(s) ==
  IF s # <<>> /\ Head(s) \in Whitespace THEN TrimStart(Tail(s)) ELSE s

RECURSIVE TrimEnd(_)
TrimEnd(s) ==
  IF s # <<>> /\ s[Len(s)] \in Whitespace
  THEN TrimEnd(SubSeq(s, 1, Len(s) - 1))
  ELSE s

Trim(s) == TrimEnd(TrimStart(s))

LowerChar(c) ==
  CASE c = "A" -> "a" [] c = "B" -> "b"
    [] c = "Volunteer" -> "volunteer"
    [] c = "Sunday Service" -> "sunday service"
    [] OTHER -> c

ToLowerCase(s) == [i \in 1..Len(s) |-> LowerChar(s[i])]

AllDigits(s) == Len(s) >= 1 /\ \A i \in 1..Len(s) : s[i] \in Digits

RECURSIVE ParseInt(_)
ParseInt(s) ==
  IF s = <<>> THEN 0
  ELSE ParseInt(SubSeq(s, 1, Len(s) - 1)) * 10 + DigitVal(s[Len(s)])

----------------------------------------------------------------------------
(* extractNumericBel *)

extractNumericBel_ParsesPrefix(cv) ==
  IF cv.t = "number" /\ cv.int /\ cv.v >= 0 THEN cv.v
  ELSE IF cv.t = "string"
       THEN LET numStr == Trim(cv.s)
                lead == SelectSeq(numStr, LAMBDA c : c \in Digits)
            IN  IF numStr = <<>> \/ lead = <<>> THEN NULL ELSE ParseInt(lead)
       ELSE NULL

extractNumericBel(cv) ==
  IF cv.t = "number" /\ cv.int /\ cv.v >= 0 THEN cv.v
  ELSE IF cv.t = "string"
       THEN LET numStr == Trim(cv.s)
            IN  IF numStr = <<>> THEN NULL
                ELSE IF ~AllDigits(numStr) THEN NULL
                ELSE LET num == ParseInt(numStr)
                     IN  IF num >= 0 THEN num ELSE NULL
       ELSE NULL

----------------------------------------------------------------------------
(* Sheets.  A row is the sequence of its cells; column k of the code       *)
(* (0-based) is row[k + 1].  getDataRange().getValues() returns a          *)
(* rectangle, so every row of a sheet has the sheet's width.               *)

Cell(row, k) == row[k + 1]

Filler == Str(<<"x">>)

Pad(cells, w) == [i \in 1..w |-> IF i <= Len(cells) THEN cells[i] ELSE Filler]

DirRow(w, id, name) == Pad(SubSeq(<<Filler, id, name>>, 1, w), w)

EventRow(w, id, name, event, eid, role, ts) ==
  Pad(SubSeq(<<id, name, event, eid, Filler, Filler, Filler, Filler, Filler,
               role, ts>>, 1, w), w)

ServiceRow(w, id, name, ts) ==
  Pad(SubSeq(<<id, name, Filler, Filler, ts, Filler, Filler, Filler>>, 1, w), w)

SeqsUpTo(S, n) == UNION {[1..k -> S] : k \in 0..n}

----------------------------------------------------------------------------
(* matchOrAssignBelCodes *)

normalize_NoCaseFold(name) == Trim(name.s)

normalize(name) == ToLowerCase(Trim(name.s))

Truthy(str) == str # <<>>

EmptyMap == <<>>

Has(map, key) == key \in DOMAIN map

Set(map, key, val) ==
  [k \in DOMAIN map \cup {key} |-> IF k = key THEN val ELSE map[k]]

\* Step 1, one directory row: lines 78-98.
DirectoryRow(ctx, row) ==
  IF Len(row) > 2
  THEN LET name == normalize(Cell(row, 2))
           numericBel == extractNumericBel(Cell(row, 1))
       IN  IF Truthy(name)
           THEN IF numericBel # NULL
                THEN [map |-> IF ~Has(ctx.map, name)
                              THEN Set(ctx.map, name, numericBel)
                              ELSE ctx.map,
                      used |-> ctx.used \cup {numericBel}]
                ELSE ctx
           ELSE ctx
  ELSE ctx

\* Step 2, one attendance row: lines 111-124.
AttendanceRow_LastWins(ctx, row) ==
  IF Len(row) > 1
  THEN LET name == normalize(Cell(row, 1))
           numericBelFromRow == extractNumericBel(Cell(row, 0))
       IN  IF numericBelFromRow # NULL
           THEN [map |-> IF Truthy(name)
                         THEN Set(ctx.map, name, numericBelFromRow)
                         ELSE ctx.map,
                 used |-> ctx.used \cup {numericBelFromRow}]
           ELSE ctx
  ELSE ctx

AttendanceRow(ctx, row) ==
  IF Len(row) > 1
  THEN LET name == normalize(Cell(row, 1))
           numericBelFromRow == extractNumericBel(Cell(row, 0))
       IN  IF numericBelFromRow # NULL
           THEN [map |-> IF Truthy(name) /\ ~Has(ctx.map, name)
                         THEN Set(ctx.map, name, numericBelFromRow)
                         ELSE ctx.map,
                 used |-> ctx.used \cup {numericBelFromRow}]
           ELSE ctx
  ELSE ctx

RECURSIVE ForEachDirectoryRow(_, _)
ForEachDirectoryRow(ctx, rows) ==
  IF rows = <<>> THEN ctx
  ELSE ForEachDirectoryRow(DirectoryRow(ctx, Head(rows)), Tail(rows))

RECURSIVE ForEachAttendanceRow(_, _)
ForEachAttendanceRow(ctx, rows) ==
  IF rows = <<>> THEN ctx
  ELSE ForEachAttendanceRow(AttendanceRow(ctx, Head(rows)), Tail(rows))

\* Step 3: lines 129-136.
HighestFound_Zero(used) == 0

HighestFound(used) ==
  IF \E c \in used : c > 0
  THEN CHOOSE c \in used : \A d \in used : d <= c
  ELSE 0

\* Step 4, generateBEL: lines 141-155.  The result is the code returned with
\* the counter and the set as the call leaves them; code = NULL stands for
\* the Error thrown by the safety break.
SafetyThreshold == 20000

generateBEL_NoBookkeeping(counter, used, highest) ==
  [code |-> counter, counter |-> counter, used |-> used]

generateBEL_BreakAfterOne(counter, used, highest) ==
  IF counter > highest + 1
  THEN [code |-> NULL, counter |-> counter + 1, used |-> used]
  ELSE [code |-> counter, counter |-> counter + 1,
        used |-> used \cup {counter}]

RECURSIVE generateBEL(_, _, _)
generateBEL(counter, used, highest) ==
  IF counter \notin used
  THEN [code |-> counter, counter |-> counter + 1,
        used |-> used \cup {counter}]
  ELSE IF counter + 1 > highest + SafetyThreshold
       THEN [code |-> NULL, counter |-> counter + 1, used |-> used]
       ELSE generateBEL(counter + 1, used, highest)

\* Step 5, the identity part of one row: lines 160-177.  A row without a
\* name column or without a name is skipped before any id is looked up.
SUNDAY_SERVICE == Str(<<"Sunday Service">>)
SERVICE == Str(<<"Service">>)

Named_AnyCell(row) == Len(row) >= 2

Named(row) == Len(row) >= 2 /\ Truthy(normalize(Cell(row, 1)))

FormatRow_TimestampThird(row, numericBel) ==
  IF Len(row) >= 11
  THEN <<Num(numericBel), Cell(row, 1), Cell(row, 2), Cell(row, 3),
         Cell(row, 4), Cell(row, 5), Cell(row, 6), Cell(row, 7),
         Cell(row, 8), Cell(row, 9), Cell(row, 10)>>
  ELSE IF Len(row) >= 8
  THEN <<Num(numericBel), Cell(row, 1), SUNDAY_SERVICE, SERVICE,
         Cell(row, 2), Cell(row, 3), Cell(row, 6), Blank, Blank, Blank,
         Cell(row, 2)>>
  ELSE <<>>

\* Lines 179-207: the 11-column row, or <<>> for an unrecognized structure.
FormatRow(row, numericBel) ==
  IF Len(row) >= 11
  THEN <<Num(numericBel), Cell(row, 1), Cell(row, 2), Cell(row, 3),
         Cell(row, 4), Cell(row, 5), Cell(row, 6), Cell(row, 7),
         Cell(row, 8), Cell(row, 9), Cell(row, 10)>>
  ELSE IF Len(row) >= 8
  THEN <<Num(numericBel), Cell(row, 1), SUNDAY_SERVICE, SERVICE,
         Cell(row, 2), Cell(row, 3), Cell(row, 6), Blank, Blank, Blank,
         Cell(row, 4)>>
  ELSE <<>>

----------------------------------------------------------------------------
(* calculateAttendanceStats *)

\* The Date library on a simplified calendar.  A time value counts ticks;
\* every month has DaysPerMonth days.
TicksPerDay == 2
DaysPerMonth == 2
MonthsPerYear == 12
MonthsPerQuarter == 3
SerialEpoch == 25569

DateCell(time) == [t |-> "date", v |-> time, int |-> TRUE, s |-> <<>>]

DayNumber(time) == time \div TicksPerDay
getMonth(time) == (DayNumber(time) \div DaysPerMonth) % MonthsPerYear
getFullYear_Ignored(time) == 0
getFullYear(time) == DayNumber(time) \div (DaysPerMonth * MonthsPerYear)
toDateString(time) == <<ToString(DayNumber(time))>>

\* new Date(String(text)): a date text is the chunk "date" followed by the
\* decimal digits of its time value; Date parses no other text of the model.
DateParse(chars) ==
  IF Len(chars) >= 2 /\ Head(chars) = "date" /\ AllDigits(Tail(chars))
  THEN [ok |-> TRUE, time |-> ParseInt(Tail(chars))]
  ELSE [ok |-> FALSE, time |-> 0]

\* Lines 96-114: the Date of the timestamp cell, ok = FALSE for Invalid Date.
ParseTimestamp(dateStr) ==
  IF dateStr.t = "date" THEN [ok |-> TRUE, time |-> dateStr.v]
  ELSE IF dateStr.t = "number"
  THEN [ok |-> TRUE,
        time |-> (dateStr.v - SerialEpoch) * TicksPerDay
                 + (IF dateStr.int THEN 0 ELSE TicksPerDay \div 2)]
  ELSE IF dateStr.t = "string" THEN DateParse(dateStr.s)
  ELSE [ok |-> FALSE, time |-> 0]

Includes(chars, chunk) == \E i \in 1..Len(chars) : chars[i] = chunk

IsVolunteer_CaseSensitive(role) ==
  role.t = "string" /\ Includes(role.s, "volunteer")

IsSundayService_Literal(eventName) ==
  eventName.t = "string" /\ eventName.s = <<"Sunday Service">>

\* Lines 118-119.
IsSundayService(eventName) ==
  eventName.t = "string" /\ Includes(ToLowerCase(eventName.s), "sunday service")

IsVolunteer(role) ==
  role.t = "string" /\ Includes(ToLowerCase(role.s), "volunteer")

\* Lines 125-127.
EventKey(eventName, eventId, time) ==
  IF IsSundayService(eventName)
  THEN <<"sunday service", "-">> \o toDateString(time)
  ELSE (IF eventName.t = "string" THEN eventName.s ELSE <<"UnknownEvent">>)
       \o <<"-">>
       \o (IF eventId.t = "string" THEN eventId.s ELSE <<"UnknownID">>)

Record_QuarterIsMonth(row) ==
  LET date == ParseTimestamp(Cell(row, 10))
  IN  [ok |-> Len(row) >= 11 /\ date.ok,
       bel |-> Cell(row, 0).v,
       name |-> Cell(row, 1),
       date |-> date.time,
       eventKey |-> EventKey(Cell(row, 2), Cell(row, 3), date.time),
       month |-> getMonth(date.time),
       quarter |-> getMonth(date.time),
       year |-> getFullYear(date.time),
       isVolunteer |-> IsVolunteer(Cell(row, 9))]

\* Lines 74-140: the record of one row; ok = FALSE for a skipped row.
Record(row) ==
  LET date == ParseTimestamp(Cell(row, 10))
  IN  [ok |-> Len(row) >= 11 /\ date.ok,
       bel |-> Cell(row, 0).v,
       name |-> Cell(row, 1),
       date |-> date.time,
       eventKey |-> EventKey(Cell(row, 2), Cell(row, 3), date.time),
       month |-> getMonth(date.time),
       quarter |-> getMonth(date.time) \div MonthsPerQuarter,
       year |-> getFullYear(date.time),
       isVolunteer |-> IsVolunteer(Cell(row, 9))]

Records_KeepInvalid(rawData) ==
  SelectSeq([i \in 1..Len(rawData) |-> Record(rawData[i])],
            LAMBDA r : TRUE)

Records_StopAtInvalid(rawData) ==
  LET all == [i \in 1..Len(rawData) |-> Record(rawData[i])]
      bad == {i \in 1..Len(all) : ~all[i].ok}
      stop == IF bad = {} THEN Len(all) + 1
              ELSE CHOOSE i \in bad : \A j \in bad : i <= j
  IN  SubSeq(all, 1, stop - 1)

Records(rawData) ==
  SelectSeq([i \in 1..Len(rawData) |->
               IF Len(rawData[i]) >= 11
               THEN Record(rawData[i])
               ELSE [ok |-> FALSE, bel |-> 0, name |-> Blank, date |-> 0,
                     eventKey |-> <<>>, month |-> 0, quarter |-> 0,
                     year |-> 0, isVolunteer |-> FALSE]],
            LAMBDA r : r.ok)

RECURSIVE DistinctInOrder(_)
DistinctInOrder(s) ==
  IF s = <<>> THEN <<>>
  ELSE LET front == DistinctInOrder(SubSeq(s, 1, Len(s) - 1))
           last == s[Len(s)]
       IN  IF \E i \in 1..Len(front) : front[i] = last
           THEN front
           ELSE Append(front, last)

\* Lines 144-148: the keys of the Map in insertion order, and a key's records.
GroupKeys(recs) == DistinctInOrder([i \in 1..Len(recs) |-> recs[i].bel])

Group(recs, bel) == SelectSeq(recs, LAMBDA r : r.bel = bel)

MostRecent_First(records) == records[1]

\* Lines 185-189: the first record after the stable descending sort.
MostRecent(records) ==
  LET first == CHOOSE i \in 1..Len(records) :
                 /\ \A j \in 1..Len(records) : records[j].date <= records[i].date
                 /\ \A j \in 1..(i - 1) : records[j].date < records[i].date
  IN  records[first]

\* Lines 202-204: split('-')[0].
RECURSIVE BeforeHyphen(_)
BeforeHyphen(chars) ==
  IF chars = <<>> \/ Head(chars) = "-" THEN <<>>
  ELSE <<Head(chars)>> \o BeforeHyphen(Tail(chars))

KeysOf(records, keep(_)) ==
  {records[i].eventKey : i \in {j \in 1..Len(records) : keep(records[j])}}

SummaryRow_TotalOfYear(bel, records, nowTime) ==
  LET currentMonth == getMonth(nowTime)
      currentQuarter == currentMonth \div MonthsPerQuarter
      currentYear == getFullYear(nowTime)
      mostRecentRecord == MostRecent(records)
  IN  [bel |-> bel,
       fullName |-> mostRecentRecord.name,
       quarter |-> Cardinality(KeysOf(records,
                     LAMBDA r : r.quarter = currentQuarter)),
       month |-> Cardinality(KeysOf(records,
                     LAMBDA r : r.month = currentMonth)),
       volunteer |-> Cardinality({i \in 1..Len(records) :
                     records[i].isVolunteer /\ records[i].year = currentYear}),
       lastDate |-> mostRecentRecord.date,
       lastEvent |-> BeforeHyphen(mostRecentRecord.eventKey),
       total |-> Cardinality(KeysOf(records, LAMBDA r : r.year = currentYear))]

\* Lines 155-224: the summary row of one group.
SummaryRow(bel, records, nowTime) ==
  LET currentMonth == getMonth(nowTime)
      currentQuarter == currentMonth \div MonthsPerQuarter
      currentYear == getFullYear(nowTime)
      mostRecentRecord == MostRecent(records)
  IN  [bel |-> bel,
       fullName |-> mostRecentRecord.name,
       quarter |-> Cardinality(KeysOf(records,
                     LAMBDA r : r.year = currentYear /\ r.quarter = currentQuarter)),
       month |-> Cardinality(KeysOf(records,
                     LAMBDA r : r.year = currentYear /\ r.month = currentMonth)),
       volunteer |-> Cardinality({i \in 1..Len(records) :
                     records[i].isVolunteer /\ records[i].year = currentYear}),
       lastDate |-> mostRecentRecord.date,
       lastEvent |-> BeforeHyphen(mostRecentRecord.eventKey),
       total |-> Cardinality(KeysOf(records, LAMBDA r : TRUE))]

\* Lines 53-229 after the call of matchOrAssignBelCodes.
calculateAttendanceStats(rawData, nowTime) ==
  LET recs == Records(rawData)
      keys == GroupKeys(recs)
  IN  [g \in 1..Len(keys) |-> SummaryRow(keys[g], Group(recs, keys[g]), nowTime)]

----------------------------------------------------------------------------
(* The input domains of the runs *)

MaxRows == 3

IdCells == {Blank, Num(0), Str(<<"2">>)}
NameCells == {Str(<<" ">>), Str(<<"a">>), Str(<<"A", " ">>), Str(<<"b">>)}
DirWidths == {3}
EventWidths == {11}
ServiceWidths == {5, 8}


Sheet(w, rows) == [width |-> w, rows |-> rows]

DirRows(w) == {DirRow(w, id, name) : id \in IdCells, name \in NameCells}

EventRows(w) ==
  {EventRow(w, id, name, Filler, Filler, Blank, DateCell(0)) :
     id \in IdCells, name \in NameCells}

ServiceRows(w) ==
  {ServiceRow(w, id, name, DateCell(0)) : id \in IdCells, name \in NameCells}

WidthsFor(n, widths, default) == IF n = 0 THEN {default} ELSE widths

vars ==
  <<codeValue, extracted, dData, eData, sData, pc, belMap, allUsedCodes,
    attendanceDataRaw, highestFoundNum, codeCounter, rowIdx, results, genLog,
    now, summary, run, appended, prevMap, prevSummary, sources, loader,
    statsSheet, activeMembersData, sundayService, serviceDateValue, submits>>

sheetVars == <<dData, eData, sData>>
extractVars == <<codeValue, extracted>>
runVars ==
  <<pc, belMap, allUsedCodes, attendanceDataRaw, highestFoundNum,
    codeCounter, rowIdx, results, genLog>>

pipeVars == <<now, summary, run, appended, prevMap, prevSummary>>
deskVars == <<sundayService, serviceDateValue, submits>>
bookVars == <<sources, loader, statsSheet, activeMembersData, deskVars>>

InitRun ==
  /\ pc = "idle"
  /\ belMap = EmptyMap
  /\ allUsedCodes = {}
  /\ attendanceDataRaw = <<>>
  /\ highestFoundNum = 0
  /\ codeCounter = 0
  /\ rowIdx = 0
  /\ results = <<>>
  /\ genLog = <<>>
  /\ summary = <<>>
  /\ run = 1
  /\ appended = FALSE
  /\ prevMap = EmptyMap
  /\ prevSummary = <<>>

InitNoExtract ==
  /\ codeValue = Blank
  /\ extracted = [done |-> FALSE, val |-> NULL]

\* No sheet named Sunday Service holds a row, B2 is empty and nothing has
\* been submitted.
InitDesk ==
  /\ sundayService = Sheet(2, <<>>)
  /\ serviceDateValue = Blank
  /\ submits = 0

\* Every required source exists, and nothing has been written yet.
AllPresent ==
  [directoryId |-> TRUE, service |-> TRUE, event |-> TRUE, stats |-> TRUE,
   directory |-> TRUE]

InitBook ==
  /\ sources = AllPresent
  /\ loader = "part_001"
  /\ statsSheet = <<>>
  /\ activeMembersData = <<>>
  /\ InitDesk

Init ==
  /\ \E nd \in 0..MaxRows, ne \in 0..MaxRows, ns \in 0..MaxRows :
       /\ nd + ne + ns <= MaxRows
       /\ \E wd \in WidthsFor(nd, DirWidths, 3),
             we \in WidthsFor(ne, EventWidths, 11),
             ws \in WidthsFor(ns, ServiceWidths, 8) :
            /\ dData \in {Sheet(wd, r) : r \in [1..nd -> DirRows(wd)]}
            /\ eData \in {Sheet(we, r) : r \in [1..ne -> EventRows(we)]}
            /\ sData \in {Sheet(ws, r) : r \in [1..ns -> ServiceRows(ws)]}
  /\ now = 0
  /\ InitRun
  /\ InitNoExtract
  /\ InitBook

----------------------------------------------------------------------------
(* A run of matchOrAssignBelCodes, one action per step of the function *)

Step1_KeepsUsedCodes ==
  /\ pc = "idle"
  /\ LET ctx == ForEachDirectoryRow([map |-> EmptyMap, used |-> allUsedCodes],
                                    dData.rows)
     IN  /\ belMap' = ctx.map
         /\ allUsedCodes' = ctx.used
  /\ pc' = "step2"
  /\ attendanceDataRaw' = <<>>
  /\ highestFoundNum' = 0
  /\ codeCounter' = 0
  /\ rowIdx' = 0
  /\ results' = <<>>
  /\ genLog' = <<>>
  /\ summary' = <<>>
  /\ UNCHANGED <<bookVars, sheetVars, extractVars, now, run, appended, prevMap,
                 prevSummary>>

\* getDataFromSheets is defined twice in the project's one global scope, in
\* part_001 (lines 147-211) and in MatchAssignUniqueCodes.js (lines 218-235);
\* the project's file order decides which one a call runs.  The first throws
\* without the directory id and returns undefined without a sheet; the
\* second replaces a missing sheet by its header row.  The sheet variables
\* of an absent source hold no rows.
LoadOutcome ==
  IF loader = "part_001"
  THEN IF ~sources.directoryId THEN "throws"
       ELSE IF ~sources.service \/ ~sources.event \/ ~sources.stats
               \/ ~sources.directory
       THEN "undefined"
       ELSE "data"
  ELSE "data"

\* Lines 61-103: the data is loaded, the map and the set are created empty,
\* and Step 1 reads the directory.  Without data the function returns [],
\* and an error of the loader ends the run.
Step1 ==
  /\ pc = "idle"
  /\ LET ctx == ForEachDirectoryRow([map |-> EmptyMap, used |-> {}],
                                    dData.rows)
     IN  /\ belMap' = IF LoadOutcome = "data" THEN ctx.map ELSE EmptyMap
         /\ allUsedCodes' = IF LoadOutcome = "data" THEN ctx.used ELSE {}
  /\ pc' = CASE LoadOutcome = "data" -> "step2"
             [] LoadOutcome = "undefined" -> "returned"
             [] LoadOutcome = "throws" -> "threw"
  /\ attendanceDataRaw' = <<>>
  /\ highestFoundNum' = 0
  /\ codeCounter' = 0
  /\ rowIdx' = 0
  /\ results' = <<>>
  /\ genLog' = <<>>
  /\ summary' = <<>>
  /\ UNCHANGED <<bookVars, sheetVars, extractVars, now, run, appended, prevMap,
                 prevSummary>>

\* Lines 106-137: Step 2 reads the attendance rows, Step 3 sets the counter.
Step2 ==
  /\ pc = "step2"
  /\ attendanceDataRaw' = eData.rows \o sData.rows
  /\ LET ctx == ForEachAttendanceRow([map |-> belMap, used |-> allUsedCodes],
                                     attendanceDataRaw')
     IN  /\ belMap' = ctx.map
         /\ allUsedCodes' = ctx.used
  /\ highestFoundNum' = HighestFound(allUsedCodes')
  /\ codeCounter' = highestFoundNum' + 1
  /\ rowIdx' = 1
  /\ pc' = "step5"
  /\ UNCHANGED <<bookVars, sheetVars, extractVars, pipeVars, results, genLog>>

Step5Row_ClassifyFirst ==
  /\ pc = "step5"
  /\ rowIdx <= Len(attendanceDataRaw)
  /\ LET row == attendanceDataRaw[rowIdx]
         name == normalize(Cell(row, 1))
         gen == generateBEL(codeCounter, allUsedCodes, highestFoundNum)
     IN  IF ~Named(row) \/ Len(row) < 8
         THEN /\ rowIdx' = rowIdx + 1
              /\ UNCHANGED <<pc, belMap, allUsedCodes, codeCounter, results,
                             genLog>>
         ELSE IF Has(belMap, name)
         THEN /\ rowIdx' = rowIdx + 1
              /\ results' = IF FormatRow(row, belMap[name]) = <<>>
                            THEN results
                            ELSE Append(results, FormatRow(row, belMap[name]))
              /\ UNCHANGED <<pc, belMap, allUsedCodes, codeCounter, genLog>>
         ELSE IF gen.code = NULL
         THEN /\ pc' = "threw"
              /\ codeCounter' = gen.counter
              /\ UNCHANGED <<belMap, allUsedCodes, rowIdx, results, genLog>>
         ELSE /\ rowIdx' = rowIdx + 1
              /\ allUsedCodes' = gen.used
              /\ codeCounter' = gen.counter
              /\ belMap' = Set(belMap, name, gen.code)
              /\ genLog' = Append(genLog, [code |-> gen.code,
                                           used |-> allUsedCodes])
              /\ results' = IF FormatRow(row, gen.code) = <<>>
                            THEN results
                            ELSE Append(results, FormatRow(row, gen.code))
              /\ UNCHANGED pc
  /\ UNCHANGED <<bookVars, sheetVars, extractVars, pipeVars, attendanceDataRaw, highestFoundNum>>

\* Lines 159-209: one iteration of the forEach of Step 5.
Step5Row ==
  /\ pc = "step5"
  /\ rowIdx <= Len(attendanceDataRaw)
  /\ LET row == attendanceDataRaw[rowIdx]
         name == normalize(Cell(row, 1))
         gen == generateBEL(codeCounter, allUsedCodes, highestFoundNum)
     IN  IF ~Named(row)
         THEN /\ rowIdx' = rowIdx + 1
              /\ UNCHANGED <<pc, belMap, allUsedCodes, codeCounter, results,
                             genLog>>
         ELSE IF Has(belMap, name)
         THEN /\ rowIdx' = rowIdx + 1
              /\ results' = IF FormatRow(row, belMap[name]) = <<>>
                            THEN results
                            ELSE Append(results, FormatRow(row, belMap[name]))
              /\ UNCHANGED <<pc, belMap, allUsedCodes, codeCounter, genLog>>
         ELSE IF gen.code = NULL
         THEN /\ pc' = "threw"
              /\ codeCounter' = gen.counter
              /\ UNCHANGED <<belMap, allUsedCodes, rowIdx, results, genLog>>
         ELSE /\ rowIdx' = rowIdx + 1
              /\ allUsedCodes' = gen.used
              /\ codeCounter' = gen.counter
              /\ belMap' = Set(belMap, name, gen.code)
              /\ genLog' = Append(genLog, [code |-> gen.code,
                                           used |-> allUsedCodes])
              /\ results' = IF FormatRow(row, gen.code) = <<>>
                            THEN results
                            ELSE Append(results, FormatRow(row, gen.code))
              /\ UNCHANGED pc
  /\ UNCHANGED <<bookVars, sheetVars, extractVars, pipeVars, attendanceDataRaw, highestFoundNum>>

\* Lines 211-212.
Return ==
  /\ pc = "step5"
  /\ rowIdx > Len(attendanceDataRaw)
  /\ pc' = "returned"
  /\ UNCHANGED <<bookVars, sheetVars, extractVars, pipeVars, belMap, allUsedCodes,
                 attendanceDataRaw, highestFoundNum, codeCounter, rowIdx,
                 results, genLog>>

Next == Step1 \/ Step2 \/ Step5Row \/ Return

Spec == Init /\ [][Next]_vars

----------------------------------------------------------------------------
(* What the sources hold, read off the sheets without the run's state *)

FoldedName(cell) == ToLowerCase(Trim(cell.s))

\* The (key, id) observations in precedence order: directory rows, then
\* event rows, then service rows.  A sheet too narrow to have the name
\* column yields none.
DirObservations ==
  IF dData.width >= 3
  THEN [i \in 1..Len(dData.rows) |->
          [key |-> FoldedName(Cell(dData.rows[i], 2)),
           id |-> extractNumericBel(Cell(dData.rows[i], 1))]]
  ELSE <<>>

AttObservations(sheet) ==
  IF sheet.width >= 2
  THEN [i \in 1..Len(sheet.rows) |->
          [key |-> FoldedName(Cell(sheet.rows[i], 1)),
           id |-> extractNumericBel(Cell(sheet.rows[i], 0))]]
  ELSE <<>>

Observations == DirObservations \o AttObservations(eData) \o AttObservations(sData)

\* Every valid numeric id in the id column of any row of any source.
IdColumn(sheet, col) ==
  IF sheet.width > col
  THEN {extractNumericBel(Cell(sheet.rows[i], col)) : i \in 1..Len(sheet.rows)}
  ELSE {}

SourceIds ==
  (IdColumn(dData, 1) \cup IdColumn(eData, 0) \cup IdColumn(sData, 0)) \ {NULL}

MappingBuilt == pc \in {"step5", "returned", "threw"}

GeneratedCodes == {genLog[i].code : i \in 1..Len(genLog)}

----------------------------------------------------------------------------
(* Claims about matchOrAssignBelCodes *)

\* C1: every id generateBEL returns is strictly greater than every id in
\* the used-id set at the moment of the call, and no two ids generated in
\* one run are equal.
C1_GeneratedAboveUsed ==
  \A i \in 1..Len(genLog) :
    /\ \A u \in genLog[i].used : genLog[i].code > u
    /\ \A j \in 1..Len(genLog) : j # i => genLog[j].code # genLog[i].code

C1_Witness ==
  /\ pc = "returned"
  /\ Len(genLog) >= 2
  /\ genLog[1].used # {}

\* C2: every valid numeric id in the id column of a directory, event or
\* service row is in the used-id set once the mapping is built, so
\* generateBEL never returns such an id.
C2_SourceIdsAreUsed ==
  /\ MappingBuilt => SourceIds \subseteq allUsedCodes
  /\ GeneratedCodes \cap SourceIds = {}

\* C3: the mapping is first-seen-wins in the order directory, event log,
\* service log: a key maps to the id of its first observation with a valid
\* id, and the valid id of every later observation is still in the used-id
\* set.
C3_FirstSeenWins ==
  MappingBuilt =>
    LET obs == Observations
    IN  \A i \in 1..Len(obs) :
          (obs[i].key # <<>> /\ obs[i].id # NULL) =>
            /\ obs[i].id \in allUsedCodes
            /\ Has(belMap, obs[i].key)
            /\ (\A j \in 1..(i - 1) :
                  ~(obs[j].key = obs[i].key /\ obs[j].id # NULL))
               => belMap[obs[i].key] = obs[i].id

C3_Witness ==
  /\ pc = "step5" /\ rowIdx = 1
  /\ dData.rows # <<>>
  /\ \E i \in 1..Len(Observations), j \in 1..Len(Observations) :
       /\ i <= Len(dData.rows) /\ j > Len(dData.rows)
       /\ Observations[i].key = Observations[j].key
       /\ Observations[i].key # <<>>
       /\ Observations[i].id # NULL /\ Observations[j].id # NULL
       /\ Observations[i].id # Observations[j].id
       /\ belMap[Observations[i].key] = Observations[i].id
       /\ Observations[j].id \in allUsedCodes

\* C4: within one run, emitted events whose full names are equal after
\* trimming and case-folding carry the same id, that id is what the mapping
\* holds for the key, and the mapping of a key never changes once set.
EventsAgreeWithMap(res, map) ==
  /\ \A i \in 1..Len(res) :
       /\ Has(map, FoldedName(res[i][2]))
       /\ res[i][1] = Num(map[FoldedName(res[i][2])])
  /\ \A i \in 1..Len(res), j \in 1..Len(res) :
       FoldedName(res[i][2]) = FoldedName(res[j][2]) => res[i][1] = res[j][1]

C4_SameNameSameId ==
  [][pc # "idle" =>
       /\ \A k \in DOMAIN belMap : Has(belMap', k) /\ belMap'[k] = belMap[k]
       /\ EventsAgreeWithMap(results', belMap')]_vars

C4_Witness ==
  /\ pc = "returned"
  /\ \E i \in 1..Len(results), j \in 1..Len(results) :
       /\ results[i][2] # results[j][2]
       /\ FoldedName(results[i][2]) = FoldedName(results[j][2])
       /\ results[i][1] = results[j][1]
       /\ \E o \in 1..Len(dData.rows) :
            /\ dData.width >= 3
            /\ FoldedName(Cell(dData.rows[o], 2)) = FoldedName(results[i][2])
            /\ extractNumericBel(Cell(dData.rows[o], 1)) # NULL

\* C5: with M the highest valid numeric id of all sources (0 without one),
\* the k-th distinct match key that has no id in any source, in the order
\* event rows then service rows, resolves to M + k.
MaxOf(S) == IF S = {} THEN 0 ELSE CHOOSE m \in S : \A x \in S : x <= m

KeyHasSourceId(key) ==
  \E i \in 1..Len(Observations) :
    Observations[i].key = key /\ Observations[i].id # NULL

AttKeys == [i \in 1..Len(AttObservations(eData) \o AttObservations(sData)) |->
              (AttObservations(eData) \o AttObservations(sData))[i].key]

NewKeys ==
  DistinctInOrder(SelectSeq(AttKeys, LAMBDA k : k # <<>> /\ ~KeyHasSourceId(k)))

C5_NewIdsFollowHighest ==
  pc = "returned" =>
    \A k \in 1..Len(NewKeys) :
      Has(belMap, NewKeys[k]) /\ belMap[NewKeys[k]] = MaxOf(SourceIds) + k

\* C9: at the end of a run every id in the mapping is a positive integer and
\* no two distinct match keys are mapped to the same id.
C9_PositiveAndUnique ==
  pc = "returned" =>
    /\ \A k \in DOMAIN belMap : belMap[k] > 0
    /\ \A k1 \in DOMAIN belMap, k2 \in DOMAIN belMap :
         k1 # k2 => belMap[k1] # belMap[k2]

\* C9 as amended: every id in the mapping is a non-negative integer, every
\* generated id is positive and mapped to exactly one key, and two distinct
\* keys share an id only when both took it from source rows.
C9_GeneratedPositiveAndUnique ==
  pc = "returned" =>
    LET obs == Observations
    IN  /\ \A k \in DOMAIN belMap : belMap[k] >= 0
        /\ \A g \in GeneratedCodes :
             g > 0 /\ Cardinality({k \in DOMAIN belMap : belMap[k] = g}) = 1
        /\ \A k1 \in DOMAIN belMap, k2 \in DOMAIN belMap :
             (k1 # k2 /\ belMap[k1] = belMap[k2]) =>
               \E i \in 1..Len(obs), j \in 1..Len(obs) :
                 /\ obs[i].key = k1 /\ obs[j].key = k2
                 /\ obs[i].id = belMap[k1]
                 /\ obs[j].id = belMap[k1]

C9_Witness ==
  /\ pc = "returned"
  /\ Len(genLog) >= 1
  /\ \E k \in DOMAIN belMap : belMap[k] = 0

\* C10: an attendance row whose name is missing or normalizes to the empty
\* string is skipped entirely: no event, no mapping entry, no generated id.
Nameless(row) == Len(row) < 2 \/ Trim(Cell(row, 1).s) = <<>>

C10_NamelessRowSkipped ==
  [][(pc = "step5" /\ rowIdx <= Len(attendanceDataRaw)
        /\ Nameless(attendanceDataRaw[rowIdx]))
     => /\ results' = results
        /\ belMap' = belMap
        /\ genLog' = genLog
        /\ codeCounter' = codeCounter
        /\ allUsedCodes' = allUsedCodes
        /\ <<>> \notin DOMAIN belMap]_vars

C10_Witness ==
  /\ pc = "step5"
  /\ rowIdx = 3
  /\ Nameless(attendanceDataRaw[2])
  /\ extractNumericBel(Cell(attendanceDataRaw[2], 0)) # NULL
  /\ Len(results) = 1
  /\ Len(genLog) = 1

----------------------------------------------------------------------------
(* extractNumericBel on its own: one call on any value a cell can hold *)

MaxStrLen == 3
MaxNum == 2

ExtractAlphabet == {"0", "4", "5", "B", " "}

ExtractInputs ==
  {Str(s) : s \in SeqsUpTo(ExtractAlphabet, MaxStrLen)}
  \cup {Num(n) : n \in -1..MaxNum}
  \cup {Half(n) : n \in -1..MaxNum}
  \cup {Bool}

InitExtract ==
  /\ codeValue \in ExtractInputs
  /\ extracted = [done |-> FALSE, val |-> NULL]
  /\ dData = Sheet(3, <<>>)
  /\ eData = Sheet(11, <<>>)
  /\ sData = Sheet(8, <<>>)
  /\ now = 0
  /\ InitRun
  /\ InitBook

ExtractCall ==
  /\ ~extracted.done
  /\ extracted' = [done |-> TRUE, val |-> extractNumericBel(codeValue)]
  /\ UNCHANGED <<bookVars, codeValue, sheetVars, runVars, pipeVars>>

SpecExtract == InitExtract /\ [][ExtractCall]_vars

----------------------------------------------------------------------------
(* The pipeline run twice: matchOrAssignBelCodes, calculateAttendanceStats, *)
(* then the same again on the sheets as they are by then.                   *)

MaxPipelineRows == 2

NowTime == TicksPerDay * DaysPerMonth * MonthsPerYear * 2 + 1

PipeIdCells == {Blank, Num(2)}
PipeNameCells == {Str(<<"a">>), Str(<<"B">>)}
PipeTimestamps == {DateCell(NowTime), DateCell(0), Blank}

PipeDirRows == {DirRow(3, id, name) : id \in PipeIdCells, name \in PipeNameCells}

PipeEventRows ==
  {EventRow(11, id, name, Filler, Filler, Str(<<"Volunteer">>), ts) :
     id \in PipeIdCells, name \in PipeNameCells, ts \in PipeTimestamps}

PipeServiceRows ==
  {ServiceRow(8, id, name, ts) :
     id \in PipeIdCells, name \in PipeNameCells, ts \in PipeTimestamps}

InitPipeline ==
  /\ \E nd \in 0..MaxPipelineRows, ne \in 0..MaxPipelineRows,
        ns \in 0..MaxPipelineRows :
       /\ nd + ne + ns <= MaxPipelineRows
       /\ dData \in {Sheet(3, r) : r \in [1..nd -> PipeDirRows]}
       /\ eData \in {Sheet(11, r) : r \in [1..ne -> PipeEventRows]}
       /\ sData \in {Sheet(8, r) : r \in [1..ns -> PipeServiceRows]}
  /\ now = NowTime
  /\ InitRun
  /\ InitNoExtract
  /\ InitBook

\* README.md lines 53-229: the statistics of the rows the matcher returned.
Stats ==
  /\ pc = "returned"
  /\ summary' = calculateAttendanceStats(results, now)
  /\ pc' = "done"
  /\ UNCHANGED <<bookVars, sheetVars, extractVars, belMap, allUsedCodes,
                 attendanceDataRaw, highestFoundNum, codeCounter, rowIdx,
                 results, genLog, now, run, appended, prevMap, prevSummary>>

\* Between the runs a form submission or an editor appends one row.
AppendDirectoryRow ==
  /\ pc = "done" /\ run = 1 /\ ~appended
  /\ \E row \in PipeDirRows :
       dData' = [dData EXCEPT !.rows = Append(@, row)]
  /\ appended' = TRUE
  /\ UNCHANGED <<bookVars, eData, sData, extractVars, runVars, now, summary, run,
                 prevMap, prevSummary>>

AppendEventRow ==
  /\ pc = "done" /\ run = 1 /\ ~appended
  /\ \E row \in PipeEventRows :
       eData' = [eData EXCEPT !.rows = Append(@, row)]
  /\ appended' = TRUE
  /\ UNCHANGED <<bookVars, dData, sData, extractVars, runVars, now, summary, run,
                 prevMap, prevSummary>>

AppendServiceRow ==
  /\ pc = "done" /\ run = 1 /\ ~appended
  /\ \E row \in PipeServiceRows :
       sData' = [sData EXCEPT !.rows = Append(@, row)]
  /\ appended' = TRUE
  /\ UNCHANGED <<bookVars, dData, eData, extractVars, runVars, now, summary, run,
                 prevMap, prevSummary>>

\* The pipeline is invoked a second time; the history variables keep what
\* the first run resolved and returned.
ResolvedKeys ==
  {normalize(Cell(attendanceDataRaw[i], 1)) :
     i \in {j \in 1..Len(attendanceDataRaw) : Named(attendanceDataRaw[j])}}

Rerun ==
  /\ pc = "done" /\ run = 1
  /\ run' = 2
  /\ pc' = "idle"
  /\ prevMap' = [k \in ResolvedKeys |-> belMap[k]]
  /\ prevSummary' = summary
  /\ UNCHANGED <<bookVars, sheetVars, extractVars, belMap, allUsedCodes,
                 attendanceDataRaw, highestFoundNum, codeCounter, rowIdx,
                 results, genLog, now, summary, appended>>

NextPipeline ==
  \/ Next
  \/ Stats
  \/ AppendDirectoryRow
  \/ AppendEventRow
  \/ AppendServiceRow
  \/ Rerun

SpecPipeline == InitPipeline /\ [][NextPipeline]_vars

\* C6: when the second run reads the first run's sources with rows only
\* appended, every match key the first run resolved resolves to the same id.
C6_NeverRenumbered ==
  (pc = "done" /\ run = 2) =>
    \A k \in DOMAIN prevMap : Has(belMap, k) /\ belMap[k] = prevMap[k]

\* C7: the pipeline run twice on identical sheets with the same now returns
\* identical summary rows in the same order, and the second run resolves
\* every key as the first did: nothing of the first run's map, set or
\* counter is left for the second.
C7_RerunIdentical ==
  (pc = "done" /\ run = 2 /\ ~appended) =>
    /\ summary = prevSummary
    /\ \A k \in DOMAIN prevMap : Has(belMap, k) /\ belMap[k] = prevMap[k]

C7_Witness ==
  /\ pc = "done" /\ run = 2 /\ ~appended
  /\ Len(summary) = 2
  /\ Len(genLog) >= 1
  /\ \E g \in 1..Len(summary) : summary[g].month >= 1 /\ summary[g].total >= 1

----------------------------------------------------------------------------
(* calculateAttendanceStats on the rows matchOrAssignBelCodes may return *)

MaxEvents == 2

MonthTicks == TicksPerDay * DaysPerMonth
YearTicks == MonthTicks * MonthsPerYear

\* now: the second tick of a day in month 4 (quarter 1) of year 2.
StatsNow == 2 * YearTicks + 4 * MonthTicks + 1

StatsTimestamps ==
  {DateCell(StatsNow),                  \* this month
   DateCell(StatsNow - 1),              \* the same day, one tick earlier
   DateCell(StatsNow - MonthTicks),     \* this quarter, another month
   DateCell(StatsNow - 2 * MonthTicks), \* this year, another quarter
   DateCell(StatsNow - YearTicks),      \* this month of last year
   Str(<<"n", "/", "a">>)}              \* text Date cannot parse

StatsPersons ==
  {<<Num(1), Str(<<"a">>)>>, <<Num(1), Str(<<"b">>)>>, <<Num(2), Str(<<"b">>)>>}

StatsEvents ==
  {<<Str(<<"p", "-", "q">>), Str(<<"1">>)>>,
   <<Str(<<"Sunday Service">>), Blank>>}

StatsRoles == {Str(<<"co", "-", "Volunteer">>), Str(<<"usher">>)}

StatsRow(person, event, role, ts) ==
  <<person[1], person[2], event[1], event[2], Blank, Blank, Blank, Blank,
    Blank, role, ts>>

StatsRows ==
  {StatsRow(person, event, role, ts) :
     person \in StatsPersons, event \in StatsEvents, role \in StatsRoles,
     ts \in StatsTimestamps}

InitStats ==
  /\ results \in SeqsUpTo(StatsRows, MaxEvents)
  /\ now = StatsNow
  /\ pc = "returned"
  /\ dData = Sheet(3, <<>>)
  /\ eData = Sheet(11, <<>>)
  /\ sData = Sheet(8, <<>>)
  /\ belMap = EmptyMap
  /\ allUsedCodes = {}
  /\ attendanceDataRaw = <<>>
  /\ highestFoundNum = 0
  /\ codeCounter = 0
  /\ rowIdx = 0
  /\ genLog = <<>>
  /\ summary = <<>>
  /\ run = 1
  /\ appended = FALSE
  /\ prevMap = EmptyMap
  /\ prevSummary = <<>>
  /\ InitNoExtract
  /\ InitBook

SpecStats == InitStats /\ [][Stats]_vars

\* The rows of the input that survive, read off the input itself.
Survivors(rows, bel) ==
  {i \in 1..Len(rows) :
     /\ Len(rows[i]) >= 11
     /\ ParseTimestamp(Cell(rows[i], 10)).ok
     /\ Cell(rows[i], 0).v = bel}

TimeOf(row) == ParseTimestamp(Cell(row, 10)).time
KeyOf(row) == EventKey(Cell(row, 2), Cell(row, 3), TimeOf(row))
InputIds(rows) == {Cell(rows[i], 0).v : i \in 1..Len(rows)}
RowsFor(rows, bel) == {g \in 1..Len(rows) : rows[g].bel = bel}

\* C11: in every summary row, totalUniqueEvents is at least
\* quarterEventCount and at least monthEventCount.
C11_TotalBoundsWindows ==
  pc = "done" =>
    \A g \in 1..Len(summary) :
      /\ summary[g].total >= summary[g].quarter
      /\ summary[g].total >= summary[g].month

C11_Witness ==
  /\ pc = "done"
  /\ \E g \in 1..Len(summary) :
       /\ summary[g].total > summary[g].quarter
       /\ summary[g].quarter > summary[g].month

\* The reorderings of a list of n rows.
Perms(n) ==
  {f \in [1..n -> 1..n] : \A i, j \in 1..n : f[i] = f[j] => i = j}

Counts(row) ==
  <<row.quarter, row.month, row.volunteer, row.total, row.lastDate>>

CountsById(rows) ==
  [bel \in {rows[g].bel : g \in 1..Len(rows)} |->
     {Counts(rows[g]) : g \in RowsFor(rows, bel)}]

\* C12: the summary of any reordering of the input event list gives every
\* identity the same quarterEventCount, monthEventCount, volunteerCount,
\* totalUniqueEvents and lastAttendedDate.
C12_OrderIndependent ==
  pc = "done" =>
    \A f \in Perms(Len(results)) :
      CountsById(calculateAttendanceStats(
                   [i \in 1..Len(results) |-> results[f[i]]], now))
        = CountsById(summary)

\* One identity with two events that differ in time, window and role, so
\* that the reordered input is another input.
C12_Witness ==
  /\ pc = "done"
  /\ Len(results) >= 2
  /\ TimeOf(results[1]) < TimeOf(results[2])
  /\ Len(summary) = 1
  /\ summary[1].total = 2
  /\ summary[1].quarter = 1
  /\ summary[1].volunteer = 1

\* C17: a row whose timestamp does not parse is dropped before grouping and
\* adds to no count, and the summary has exactly one row for each identity
\* with at least one surviving row and none for any other identity.
C17_InvalidDatesDropped ==
  pc = "done" =>
    /\ \A g \in 1..Len(summary) : summary[g].bel \in InputIds(results)
    /\ \A bel \in InputIds(results) :
         LET kept == Survivors(results, bel)
         IN  /\ Cardinality(RowsFor(summary, bel))
                  = (IF kept = {} THEN 0 ELSE 1)
             /\ \A g \in RowsFor(summary, bel) :
                  /\ summary[g].total
                       = Cardinality({KeyOf(results[i]) : i \in kept})
                  /\ summary[g].volunteer <= Cardinality(kept)
                  /\ \E i \in kept : TimeOf(results[i]) = summary[g].lastDate

\* The only row of one identity is dropped, a volunteer row at that, and the
\* summary has the other identity alone.
C17_Witness ==
  /\ pc = "done"
  /\ Len(summary) = 1
  /\ Cardinality(InputIds(results)) = 2
  /\ \E i \in 1..Len(results) :
       /\ ~ParseTimestamp(Cell(results[i], 10)).ok
       /\ IsVolunteer(Cell(results[i], 9))
       /\ Cell(results[i], 0).v # summary[1].bel

\* The calendar position of a time value, in whole months and years.
MonthOf(time) == (time \div MonthTicks) % MonthsPerYear
YearOf(time) == time \div YearTicks

\* C18: monthEventCount is the number of distinct instance keys among the
\* identity's events in the month and year of now, and quarterEventCount the
\* number among its events in the quarter and year of now.
C18_WindowCounts ==
  pc = "done" =>
    \A g \in 1..Len(summary) :
      LET kept == Survivors(results, summary[g].bel)
          thisYear == {i \in kept :
                         YearOf(TimeOf(results[i])) = YearOf(now)}
      IN  /\ summary[g].month
               = Cardinality({KeyOf(results[i]) :
                    i \in {j \in thisYear :
                             MonthOf(TimeOf(results[j])) = MonthOf(now)}})
          /\ summary[g].quarter
               = Cardinality({KeyOf(results[i]) :
                    i \in {j \in thisYear :
                             MonthOf(TimeOf(results[j])) \div MonthsPerQuarter
                               = MonthOf(now) \div MonthsPerQuarter}})

\* An identity with an event in this month of last year and an event in
\* another month of this quarter.
C18_Witness ==
  /\ pc = "done"
  /\ Len(summary) = 1
  /\ summary[1].total = 2
  /\ summary[1].quarter = 1
  /\ summary[1].month = 0
  /\ \E i \in 1..Len(results) :
       /\ MonthOf(TimeOf(results[i])) = MonthOf(now)
       /\ YearOf(TimeOf(results[i])) # YearOf(now)

\* C19: volunteerCount is the number of the identity's events, repetitions
\* included, whose role contains "volunteer" in any letter case and whose
\* year is the year of now.
C19_VolunteerCount ==
  pc = "done" =>
    \A g \in 1..Len(summary) :
      summary[g].volunteer
        = Cardinality({i \in Survivors(results, summary[g].bel) :
             /\ Cell(results[i], 9).t = "string"
             /\ Includes(ToLowerCase(Cell(results[i], 9).s), "volunteer")
             /\ YearOf(TimeOf(results[i])) = YearOf(now)})

\* Two volunteer events of one instance key.
C19_Witness ==
  /\ pc = "done"
  /\ \E g \in 1..Len(summary) :
       summary[g].volunteer = 2 /\ summary[g].total = 1

\* C20: lastAttendedDate is the greatest timestamp of the identity's
\* surviving events, and displayName and lastEventName are the full name and
\* the part of the instance key before its first "-" of one event that has
\* this timestamp.
C20_MostRecentEvent ==
  pc = "done" =>
    \A g \in 1..Len(summary) :
      LET kept == Survivors(results, summary[g].bel)
      IN  /\ \A i \in kept : TimeOf(results[i]) <= summary[g].lastDate
          /\ \E i \in kept :
               /\ TimeOf(results[i]) = summary[g].lastDate
               /\ Cell(results[i], 1) = summary[g].fullName
               /\ BeforeHyphen(KeyOf(results[i])) = summary[g].lastEvent

\* The most recent event is the second row of the input, and its name and
\* event differ from those of the first.
C20_Witness ==
  /\ pc = "done"
  /\ Len(results) >= 2
  /\ Len(summary) = 1
  /\ TimeOf(results[1]) < TimeOf(results[2])
  /\ Cell(results[1], 1) # Cell(results[2], 1)
  /\ summary[1].fullName = Cell(results[2], 1)
  /\ summary[1].lastEvent = <<"p">>
  /\ BeforeHyphen(KeyOf(results[1])) = <<"sunday service">>

----------------------------------------------------------------------------
(* updateActivityLevels: column L of the Attendance Stats sheet from the    *)
(* columns E and K.  Numbers are kept as twice their value, so that n + 1/2 *)
(* is an integer of the model.                                              *)

CoreThreshold == 12
ActiveThreshold == 3

CORE == Str(<<"Core">>)
ACTIVE == Str(<<"Active">>)
INACTIVE == Str(<<"Inactive">>)

\* Number(rawValue) for a number, a Date and a string of the model's
\* alphabet: a string is trimmed, the empty string is 0, decimal digits are
\* their value, any other text is NaN.
ToNumber(rawValue) ==
  CASE rawValue.t = "number" ->
         [nan |-> FALSE,
          twice |-> 2 * rawValue.v + (IF rawValue.int THEN 0 ELSE 1)]
    [] rawValue.t = "date" -> [nan |-> FALSE, twice |-> 2 * rawValue.v]
    [] rawValue.t = "string" ->
         IF Trim(rawValue.s) = <<>> THEN [nan |-> FALSE, twice |-> 0]
         ELSE IF AllDigits(Trim(rawValue.s))
         THEN [nan |-> FALSE, twice |-> 2 * ParseInt(Trim(rawValue.s))]
         ELSE [nan |-> TRUE, twice |-> 0]

\* rawValue.toString().trim() !== ""
NonEmptyText(rawValue) ==
  rawValue.t # "string" \/ Trim(rawValue.s) # <<>>

\* part_001 line 51 (line 52 for K).
IsEffectivelyBlankOrInvalid(rawValue) ==
  \/ rawValue = Blank
  \/ NonEmptyText(rawValue) /\ ToNumber(rawValue).nan

ActivityLevel_IgnoresK(rawValueE, rawValueK) ==
  LET numE == ToNumber(rawValueE)
      combinedCount == IF numE.nan THEN 0 ELSE numE.twice
  IN  IF IsEffectivelyBlankOrInvalid(rawValueE)
         /\ IsEffectivelyBlankOrInvalid(rawValueK)
      THEN Blank
      ELSE IF combinedCount >= 2 * CoreThreshold THEN CORE
      ELSE IF combinedCount >= 2 * ActiveThreshold THEN ACTIVE
      ELSE INACTIVE

\* part_001 lines 40-69: the body of the loop for one row.
ActivityLevel(rawValueE, rawValueK) ==
  LET numE == ToNumber(rawValueE)
      numK == ToNumber(rawValueK)
      valEForSum == IF numE.nan THEN 0 ELSE numE.twice
      valKForSum == IF numK.nan THEN 0 ELSE numK.twice
      combinedCount == valEForSum + valKForSum
  IN  IF IsEffectivelyBlankOrInvalid(rawValueE)
         /\ IsEffectivelyBlankOrInvalid(rawValueK)
      THEN Blank
      ELSE IF combinedCount >= 2 * CoreThreshold THEN CORE
      ELSE IF combinedCount >= 2 * ActiveThreshold THEN ACTIVE
      ELSE INACTIVE

\* The columns of a row of the Attendance Stats sheet, A = 1.
ColB == 2
ColE == 5
ColF == 6
ColH == 8
ColK == 11
ColL == 12
StatsWidth == 12

\* part_001 lines 7-79.  The sheet is found under either spelling of its
\* name; with no row below the header nothing is written.
UpdateActivityLevels ==
  /\ pc = "written"
  /\ pc' = "labelled"
  /\ statsSheet' =
       IF sources.stats
       THEN [i \in 1..Len(statsSheet) |->
               [statsSheet[i] EXCEPT
                  ![ColL] = ActivityLevel(statsSheet[i][ColE],
                                          statsSheet[i][ColK])]]
       ELSE statsSheet
  /\ UNCHANGED <<sheetVars, extractVars, belMap, allUsedCodes,
                 attendanceDataRaw, highestFoundNum, codeCounter, rowIdx,
                 results, genLog, pipeVars, deskVars, sources, loader,
                 activeMembersData>>

MaxStatsRows == 1

ClassifierCells ==
  {Blank, Str(<<" ">>), Str(<<"a", "b", "c">>), Str(<<"5">>), Num(0),
   Num(2), Half(2), Num(3), Num(5), Num(9), Num(10), Num(12)}

ClassifierRow(rawValueE, rawValueK) ==
  [c \in 1..StatsWidth |->
     IF c = ColE THEN rawValueE ELSE IF c = ColK THEN rawValueK ELSE Blank]

InitClassifier ==
  /\ statsSheet \in SeqsUpTo({ClassifierRow(e, k) : e, k \in ClassifierCells},
                             MaxStatsRows)
  /\ pc = "written"
  /\ sources = AllPresent
  /\ loader = "part_001"
  /\ activeMembersData = <<>>
  /\ InitDesk
  /\ dData = Sheet(3, <<>>)
  /\ eData = Sheet(11, <<>>)
  /\ sData = Sheet(8, <<>>)
  /\ now = 0
  /\ belMap = EmptyMap
  /\ allUsedCodes = {}
  /\ attendanceDataRaw = <<>>
  /\ highestFoundNum = 0
  /\ codeCounter = 0
  /\ rowIdx = 0
  /\ results = <<>>
  /\ genLog = <<>>
  /\ summary = <<>>
  /\ run = 1
  /\ appended = FALSE
  /\ prevMap = EmptyMap
  /\ prevSummary = <<>>
  /\ InitNoExtract

SpecClassifier == InitClassifier /\ [][UpdateActivityLevels]_vars

\* A cell that is blank or holds text that is not a number: the empty cell,
\* text of whitespace only, and text with a character that is not a digit.
BlankOrNonNumericText(cell) ==
  cell.t = "string" /\ ~AllDigits(Trim(cell.s))

\* Twice the number a cell counts for: 0 for a blank or non-numeric cell.
CountedTwice(cell) ==
  IF cell.t = "number" THEN 2 * cell.v + (IF cell.int THEN 0 ELSE 1)
  ELSE IF BlankOrNonNumericText(cell) THEN 0
  ELSE 2 * ParseInt(Trim(cell.s))

\* C13: the label is empty exactly when both E and K are blank or
\* non-numeric text; otherwise it is Core, Active or Inactive.
C13_EmptyLabelIffBothBlank ==
  pc = "labelled" =>
    \A i \in 1..Len(statsSheet) :
      LET row == statsSheet[i]
      IN  /\ row[ColL] = Blank
               <=> (BlankOrNonNumericText(row[ColE])
                      /\ BlankOrNonNumericText(row[ColK]))
          /\ row[ColL] # Blank => row[ColL] \in {CORE, ACTIVE, INACTIVE}

\* C14: a label that is not empty is Core for E + K >= 12, Active for
\* 3 <= E + K < 12 and Inactive below, a blank or non-numeric input counting
\* as 0; E = 10 with K = 5 gives Core.
C14_LabelBySum ==
  pc = "labelled" =>
    \A i \in 1..Len(statsSheet) :
      LET row == statsSheet[i]
          combined == CountedTwice(row[ColE]) + CountedTwice(row[ColK])
      IN  /\ row[ColL] # Blank =>
               row[ColL] = (IF combined >= 2 * CoreThreshold THEN CORE
                            ELSE IF combined >= 2 * ActiveThreshold THEN ACTIVE
                            ELSE INACTIVE)
          /\ (row[ColE] = Num(10) /\ row[ColK] = Num(5)) => row[ColL] = CORE

\* Text that is not a number in E counts as 0 and K alone makes the row
\* Active.
C14_Witness ==
  /\ pc = "labelled"
  /\ \E i \in 1..Len(statsSheet) :
       /\ statsSheet[i][ColE] = Str(<<"a", "b", "c">>)
       /\ statsSheet[i][ColK] = Str(<<"5">>)
       /\ statsSheet[i][ColL] = ACTIVE

----------------------------------------------------------------------------
(* updateAttendanceStatsSheet: the summary written to Attendance Stats *)

\* The decimal digits of a natural number.
RECURSIVE DigitsOf(_)
DigitsOf(n) ==
  LET last == CHOOSE c \in Digits : DigitVal(c) = n % 10
  IN  IF n < 10 THEN <<last>> ELSE Append(DigitsOf(n \div 10), last)

\* String(fullName).trim().split(/\s+/)
RECURSIVE Split(_)
Split(chars) ==
  IF chars = <<>> THEN <<>>
  ELSE IF Head(chars) \in Whitespace THEN Split(Tail(chars))
  ELSE LET ends == {i \in 1..Len(chars) : chars[i] \in Whitespace}
           stop == IF ends = {} THEN Len(chars) + 1
                   ELSE CHOOSE i \in ends : \A j \in ends : i <= j
       IN  <<SubSeq(chars, 1, stop - 1)>>
             \o Split(SubSeq(chars, stop, Len(chars)))

RECURSIVE Join(_)
Join(parts) ==
  IF parts = <<>> THEN <<>>
  ELSE IF Len(parts) = 1 THEN parts[1]
  ELSE parts[1] \o <<" ">> \o Join(Tail(parts))

\* Utilities.formatDate(lastDate, zone, "MM/dd/yyyy"): the text of the day,
\* which Date parses back to the first tick of that day.
FormatDate(time) == Str(<<"date">> \o DigitsOf(DayNumber(time) * TicksPerDay))

\* UpdateAttndce.js lines 17-55: the ten cells written for a summary row.
OutputRow(row) ==
  LET nameParts == IF row.fullName.t = "string" /\ Truthy(row.fullName.s)
                   THEN Split(row.fullName.s)
                   ELSE <<>>
      firstName == IF Len(nameParts) > 0 THEN nameParts[1] ELSE <<>>
      lastName == IF Len(nameParts) > 1 THEN Join(Tail(nameParts)) ELSE <<>>
  IN  <<Num(row.bel), row.fullName, Str(firstName), Str(lastName),
        Num(row.quarter), Num(row.month), Num(row.volunteer),
        FormatDate(row.lastDate), Str(row.lastEvent), Num(row.total)>>

BlankRow == [c \in 1..StatsWidth |-> Blank]

WriteRows_ClearsBelow(sheet, output) ==
  [i \in 1..Len(output) |->
     LET old == IF i <= Len(sheet) THEN sheet[i] ELSE BlankRow
     IN  [c \in 1..StatsWidth |->
            IF c <= Len(output[i]) THEN output[i][c] ELSE old[c]]]

\* Line 62: setValues on rows 2..n+1, columns 1..10.
WriteRows(sheet, output) ==
  [i \in 1..(IF Len(output) > Len(sheet) THEN Len(output) ELSE Len(sheet)) |->
     LET old == IF i <= Len(sheet) THEN sheet[i] ELSE BlankRow
     IN  IF i <= Len(output)
         THEN [c \in 1..StatsWidth |->
                 IF c <= Len(output[i]) THEN output[i][c] ELSE old[c]]
         ELSE old]

\* UpdateAttndce.js lines 4-64, after calculateAttendanceStats has returned.
WriteStats ==
  /\ pc = "done"
  /\ pc' = "written"
  /\ statsSheet' =
       IF summary = <<>> \/ ~sources.stats THEN statsSheet
       ELSE WriteRows(statsSheet,
                      [g \in 1..Len(summary) |-> OutputRow(summary[g])])
  /\ UNCHANGED <<sheetVars, extractVars, belMap, allUsedCodes,
                 attendanceDataRaw, highestFoundNum, codeCounter, rowIdx,
                 results, genLog, pipeVars, deskVars, sources, loader,
                 activeMembersData>>

----------------------------------------------------------------------------
(* The run of updateAttendanceStatsSheet with a source that may be absent *)

MaxSourceRows == 1

\* What an earlier run left on the Attendance Stats sheet.
EarlierStats ==
  <<[c \in 1..StatsWidth |->
       CASE c = 1 -> Num(1)
         [] c = ColB -> Str(<<"a">>)
         [] c = ColE -> Num(1)
         [] c = ColF -> Num(1)
         [] OTHER -> Blank]>>

SourceSets ==
  {AllPresent} \cup
  {[AllPresent EXCEPT ![f] = FALSE] :
     f \in {"directoryId", "service", "event", "stats", "directory"}}

Loaders == {"part_001", "MatchAssignUniqueCodes.js"}

InitSources ==
  /\ sources \in SourceSets
  /\ loader \in Loaders
  /\ \E nd \in 0..(IF sources.directory THEN MaxSourceRows ELSE 0),
        ne \in 0..(IF sources.event THEN MaxSourceRows ELSE 0),
        ns \in 0..(IF sources.service THEN MaxSourceRows ELSE 0) :
       /\ nd + ne + ns <= MaxSourceRows
       /\ dData \in {Sheet(3, r) : r \in [1..nd -> PipeDirRows]}
       /\ eData \in {Sheet(11, r) : r \in [1..ne -> PipeEventRows]}
       /\ sData \in {Sheet(8, r) : r \in [1..ns -> PipeServiceRows]}
  /\ statsSheet = IF sources.stats THEN EarlierStats ELSE <<>>
  /\ activeMembersData = <<>>
  /\ InitDesk
  /\ now = NowTime
  /\ InitRun
  /\ InitNoExtract

NextSources == Next \/ Stats \/ WriteStats

SpecSources == InitSources /\ [][NextSources]_vars

SourceAbsent == sources # AllPresent

\* C16: with a required source absent the run formats no event, computes no
\* summary row and leaves the stats sheet as it was.
C16_NoPartialOutput ==
  SourceAbsent =>
    /\ results = <<>>
    /\ summary = <<>>
    /\ statsSheet = (IF sources.stats THEN EarlierStats ELSE <<>>)

----------------------------------------------------------------------------
(* populateRegistrationList: the roster read off the Attendance Stats sheet *)

RecentDays == 90

\* String(cell || "").trim() of a text cell.
TrimmedText(cell) == IF cell.t = "string" THEN Trim(cell.s) ELSE <<>>

\* part_000 lines 274-285: the Date of the last-date cell, ok = FALSE for
\* null.
LastDateOf(lastDateStr) ==
  IF lastDateStr.t = "date" THEN [ok |-> TRUE, time |-> lastDateStr.v]
  ELSE IF lastDateStr.t = "string" /\ lastDateStr.s # <<>>
  THEN DateParse(lastDateStr.s)
  ELSE [ok |-> FALSE, time |-> 0]

\* month > 0 of line 288, with the conversion JavaScript applies to a cell
\* that is not a number.
MonthPositive(month) == ~ToNumber(month).nan /\ ToNumber(month).twice > 0

\* part_000 lines 267-288.  activityLevel is statsRow[10], the cell of
\* column K.
IncludeMember(statsRow, today) ==
  LET month == statsRow[ColF]
      lastDate == LastDateOf(statsRow[ColH])
      activityLevel == statsRow[ColK]
      threeMonthsAgo == today - RecentDays * TicksPerDay
  IN  \/ activityLevel = CORE \/ activityLevel = ACTIVE
      \/ activityLevel = INACTIVE /\ lastDate.ok /\ lastDate.time > threeMonthsAgo
      \/ MonthPositive(month)

\* localeCompare on the lower-cased text of the model's alphabet.
CharRank(c) ==
  CASE c = " " -> 0 [] c = "a" -> 1 [] c = "b" -> 2 [] OTHER -> 3

RECURSIVE ComesBefore(_, _)
ComesBefore(s, t) ==
  IF t = <<>> THEN FALSE
  ELSE IF s = <<>> THEN TRUE
  ELSE IF CharRank(Head(s)) # CharRank(Head(t))
  THEN CharRank(Head(s)) < CharRank(Head(t))
  ELSE ComesBefore(Tail(s), Tail(t))

\* Line 332: the stable sort by lower-cased last name.
RECURSIVE SortByLastName(_)
SortByLastName(members) ==
  IF members = <<>> THEN <<>>
  ELSE LET front == SortByLastName(SubSeq(members, 1, Len(members) - 1))
           last == members[Len(members)]
           after == {i \in 1..Len(front) :
                       ComesBefore(ToLowerCase(last.lastName),
                                   ToLowerCase(front[i].lastName))}
           at == IF after = {} THEN Len(front) + 1
                 ELSE CHOOSE i \in after : \A j \in after : i <= j
       IN  SubSeq(front, 1, at - 1) \o <<last>>
             \o SubSeq(front, at, Len(front))

\* Lines 265-330: the members collected from the rows with a name, each with
\* the row of the sheet it was read from.  AssignIds adds the id of a member
\* (lines 293-326).
RECURSIVE CollectMembers(_, _, _)
CollectMembers(statsData, i, today) ==
  IF i > Len(statsData) THEN <<>>
  ELSE LET statsRow == statsData[i]
           fullNameFromStats == TrimmedText(statsRow[ColB])
           member == [row |-> i,
                      fullName |-> fullNameFromStats,
                      firstName |-> TrimmedText(statsRow[ColB + 1]),
                      lastName |-> TrimmedText(statsRow[ColB + 2])]
       IN  (IF fullNameFromStats # <<>> /\ IncludeMember(statsRow, today)
            THEN <<member>>
            ELSE <<>>)
           \o CollectMembers(statsData, i + 1, today)

\* String(cell || "") of a text, number or Date cell.
JsString(cell) ==
  CASE cell.t = "string" -> cell.s
    [] cell.t = "number" ->
         IF cell.int
         THEN (IF cell.v = 0 THEN <<>> ELSE DigitsOf(cell.v))
         ELSE DigitsOf(cell.v) \o <<".", "5">>
    [] cell.t = "date" -> <<"date">> \o DigitsOf(cell.v)

UpperChar(c) ==
  CASE c = "a" -> "A" [] c = "b" -> "B" [] c = "c" -> "C" [] OTHER -> c

ToUpperCase(s) == [i \in 1..Len(s) |-> UpperChar(s[i])]

\* The digits a text starts with.
RECURSIVE LeadingDigits(_)
LeadingDigits(s) ==
  IF s # <<>> /\ Head(s) \in Digits
  THEN <<Head(s)>> \o LeadingDigits(Tail(s))
  ELSE <<>>

\* parseInt(cell), with 0 for NaN: lines 98-101 and 126-129 keep an id only
\* if it is a number above the highest so far, which starts at 0.
ParsedId(cell) ==
  LET text == IF cell.t = "number" /\ cell.int THEN DigitsOf(cell.v)
              ELSE JsString(cell)
  IN  ParseInt(LeadingDigits(TrimStart(text)))

HighestIn(rows, highestId) ==
  LET ids == {ParsedId(Cell(rows[i], 0)) : i \in 1..Len(rows)} \cup {highestId}
  IN  CHOOSE h \in ids : \A k \in ids : k <= h

\* part_000 lines 110-140.
findHighestIdInDirectory ==
  IF sources.directoryId /\ sources.directory
  THEN HighestIn(dData.rows, 0)
  ELSE 0

\* The ids in column A of the rows of Sunday Registration from row 6 down.
RegistrationIdRows ==
  [i \in 1..Len(activeMembersData) |-> <<Str(activeMembersData[i].personId)>>]

\* part_000 lines 73-108 for LOCAL_ID_SHEETS (line 7): Sunday Service,
\* Sunday Registration, Event Attendance, Service Attendance.
findHighestIdInLocalSheets ==
  LET h1 == HighestIn(sundayService.rows, 0)
      h2 == HighestIn(RegistrationIdRows, h1)
      h3 == IF sources.event THEN HighestIn(eData.rows, h2) ELSE h2
  IN  IF sources.service THEN HighestIn(sData.rows, h3) ELSE h3

\* Lines 165-177 and 208-214: one row of a sheet with the id in its first
\* column and the name in its second; a later row of a name replaces an
\* earlier one.
RECURSIVE IdMapOf(_, _)
IdMapOf(rows, map) ==
  IF rows = <<>> THEN map
  ELSE LET row == Head(rows)
           personId == IF Len(row) >= 1 THEN Trim(JsString(Cell(row, 0)))
                       ELSE <<>>
           fullName == IF Len(row) >= 2 THEN Trim(JsString(Cell(row, 1)))
                       ELSE <<>>
       IN  IdMapOf(Tail(rows),
                   IF personId # <<>> /\ fullName # <<>>
                   THEN Set(map, ToUpperCase(fullName),
                            [id |-> personId, firstName |-> <<>>,
                             lastName |-> <<>>])
                   ELSE map)

\* part_000 lines 142-189, for a Directory whose header row names no email,
\* first name or last name column.
getDirectoryDataMap ==
  IF sources.directoryId /\ sources.directory
  THEN IdMapOf(dData.rows, EmptyMap)
  ELSE EmptyMap

\* part_000 lines 191-224, for a sheet whose first row is a header.
getLocalSheetIdMap(present, sheet) ==
  IF present THEN IdMapOf(sheet.rows, EmptyMap) ELSE EmptyMap

\* Lines 290-328: the id and the names of the members, in the order of the
\* stats rows.  A person found in no map gets the next generated id and is
\* put into the directory map.
RECURSIVE AssignIds(_, _, _, _, _)
AssignIds(members, directoryMap, eventMap, serviceMap, nextGeneratedId) ==
  IF members = <<>> THEN <<>>
  ELSE LET m == Head(members)
           normalizedFullName == ToUpperCase(m.fullName)
           known == Has(directoryMap, normalizedFullName)
           entry == directoryMap[normalizedFullName]
           generated == ~known /\ ~Has(eventMap, normalizedFullName)
                          /\ ~Has(serviceMap, normalizedFullName)
           personId ==
             IF known THEN entry.id
             ELSE IF Has(eventMap, normalizedFullName)
             THEN eventMap[normalizedFullName].id
             ELSE IF Has(serviceMap, normalizedFullName)
             THEN serviceMap[normalizedFullName].id
             ELSE DigitsOf(nextGeneratedId + 1)
           finalFirstName ==
             IF known /\ entry.firstName # <<>> THEN entry.firstName
             ELSE m.firstName
           finalLastName ==
             IF known /\ entry.lastName # <<>> THEN entry.lastName
             ELSE m.lastName
           member == [row |-> m.row, personId |-> personId,
                      fullName |-> m.fullName, firstName |-> finalFirstName,
                      lastName |-> finalLastName, isChecked |-> FALSE,
                      generated |-> generated]
       IN  <<member>> \o
           AssignIds(Tail(members),
                     IF generated
                     THEN Set(directoryMap, normalizedFullName,
                              [id |-> personId, firstName |-> finalFirstName,
                               lastName |-> finalLastName])
                     ELSE directoryMap,
                     eventMap, serviceMap,
                     IF generated THEN nextGeneratedId + 1
                     ELSE nextGeneratedId)

\* Lines 253-256: the base of the generated ids.
GeneratedIdBase ==
  IF findHighestIdInDirectory = 0 THEN findHighestIdInLocalSheets
  ELSE findHighestIdInDirectory

\* part_000 lines 226-348, on a spreadsheet that has the Sunday Registration
\* sheet.  Each row of activeMembersData carries, besides its five cells,
\* the stats row it was read from and whether its id was generated.
PopulateRegistrationList ==
  /\ pc = "labelled"
  /\ pc' = "listed"
  /\ activeMembersData' =
       IF ~sources.stats \/ statsSheet = <<>> THEN activeMembersData
       ELSE SortByLastName(
              AssignIds(CollectMembers(statsSheet, 1, now),
                        getDirectoryDataMap,
                        getLocalSheetIdMap(sources.event, eData),
                        getLocalSheetIdMap(TRUE, sundayService),
                        GeneratedIdBase))
  /\ UNCHANGED <<sheetVars, extractVars, belMap, allUsedCodes,
                 attendanceDataRaw, highestFoundNum, codeCounter, rowIdx,
                 results, genLog, pipeVars, deskVars, sources, loader,
                 statsSheet>>

MaxRosterEvents == 2

RosterNow == RecentDays * TicksPerDay + 2 * YearTicks

RosterTimestamps ==
  {DateCell(RosterNow),                                \* this month
   DateCell(RosterNow - MonthTicks),                   \* a month ago
   DateCell(RosterNow - RecentDays * TicksPerDay - 1)} \* more than 90 days ago

RosterNames == {Str(<<"a">>), Str(<<"b", " ", "a">>)}

RosterEventRows ==
  {EventRow(11, Blank, name, Filler, Filler, Blank, ts) :
     name \in RosterNames, ts \in RosterTimestamps}

\* Column K is not written by updateAttendanceStatsSheet: it holds what the
\* sheet's editors put there.
CounterCells == {Blank, Num(ActiveThreshold), Num(CoreThreshold)}

EarlierRow(counter) ==
  [c \in 1..StatsWidth |-> IF c = ColK THEN counter ELSE Blank]

InitRoster ==
  /\ eData \in {Sheet(11, r) : r \in SeqsUpTo(RosterEventRows, MaxRosterEvents)}
  /\ dData = Sheet(3, <<>>)
  /\ sData = Sheet(8, <<>>)
  /\ statsSheet \in SeqsUpTo({EarlierRow(k) : k \in CounterCells}, MaxStatsRows)
  /\ sources = AllPresent
  /\ loader \in Loaders
  /\ activeMembersData = <<>>
  /\ InitDesk
  /\ now = RosterNow
  /\ InitRun
  /\ InitNoExtract

NextRoster ==
  \/ Next
  \/ Stats
  \/ WriteStats
  \/ UpdateActivityLevels
  \/ PopulateRegistrationList

SpecRoster == InitRoster /\ [][NextRoster]_vars

\* C15: once the stats sheet and the activity labels are written, a named
\* person is in the roster exactly when the label is Core or Active, or the
\* label is Inactive and lastAttendedDate is within the last 90 days, or
\* monthEventCount > 0.
C15_RosterByLabel ==
  pc = "listed" =>
    \A i \in 1..Len(summary) :
      LET label == statsSheet[i][ColL]
          recent == summary[i].lastDate > now - RecentDays * TicksPerDay
          listed == \E m \in 1..Len(activeMembersData) :
                      activeMembersData[m].row = i
      IN  listed <=> \/ label \in {CORE, ACTIVE}
                     \/ label = INACTIVE /\ recent
                     \/ summary[i].month > 0

----------------------------------------------------------------------------
(* Further properties of calculateAttendanceStats *)

\* C29: in every summary row monthEventCount is at most quarterEventCount.
C29_MonthWithinQuarter ==
  pc = "done" =>
    \A g \in 1..Len(summary) : summary[g].month <= summary[g].quarter

\* An identity with one event in this month and one in another month of
\* this quarter.
C29_Witness ==
  /\ pc = "done"
  /\ \E g \in 1..Len(summary) :
       summary[g].month = 1 /\ summary[g].quarter = 2

----------------------------------------------------------------------------
(* The instance keys of calculateAttendanceStats, on events that differ in  *)
(* name, id and day                                                         *)

KeyPersons == {<<Num(1), Str(<<"a">>)>>, <<Num(2), Str(<<"b">>)>>}

KeyEvents ==
  {<<SUNDAY_SERVICE, SERVICE>>,
   <<Str(<<"sunday service">>), Str(<<"1">>)>>,
   <<Str(<<"Sunday Service", " ", "b">>), Str(<<"2">>)>>,
   <<Str(<<"p">>), Str(<<"1">>)>>,
   <<Str(<<"p">>), Str(<<"2">>)>>,
   <<Str(<<"p">>), Num(1)>>,
   <<Str(<<"p">>), Num(2)>>,
   <<Str(<<"p", "-", "1">>), Str(<<"2">>)>>,
   <<Str(<<"p">>), Str(<<"1", "-", "2">>)>>}

KeyTimestamps ==
  {DateCell(StatsNow),               \* a day
   DateCell(StatsNow - 1),           \* the same day, one tick earlier
   DateCell(StatsNow - MonthTicks)}  \* another day

KeyRows ==
  {StatsRow(person, event, Blank, ts) :
     person \in KeyPersons, event \in KeyEvents, ts \in KeyTimestamps}

InitKeys ==
  /\ results \in SeqsUpTo(KeyRows, MaxEvents)
  /\ now = StatsNow
  /\ pc = "returned"
  /\ dData = Sheet(3, <<>>)
  /\ eData = Sheet(11, <<>>)
  /\ sData = Sheet(8, <<>>)
  /\ belMap = EmptyMap
  /\ allUsedCodes = {}
  /\ attendanceDataRaw = <<>>
  /\ highestFoundNum = 0
  /\ codeCounter = 0
  /\ rowIdx = 0
  /\ genLog = <<>>
  /\ summary = <<>>
  /\ run = 1
  /\ appended = FALSE
  /\ prevMap = EmptyMap
  /\ prevSummary = <<>>
  /\ InitNoExtract
  /\ InitBook

SpecKeys == InitKeys /\ [][Stats]_vars

\* The pairs of events of one identity that are all of its events.
EventPairs ==
  {p \in (1..Len(results)) \X (1..Len(results)) :
     /\ p[1] < p[2]
     /\ Cell(results[p[1]], 0) = Cell(results[p[2]], 0)
     /\ Survivors(results, Cell(results[p[1]], 0).v) = {p[1], p[2]}}

TotalOf(bel) ==
  LET g == CHOOSE h \in 1..Len(summary) : summary[h].bel = bel
  IN  summary[g].total

SameDay(a, b) == TimeOf(a) \div TicksPerDay = TimeOf(b) \div TicksPerDay

SameEvent(a, b) == Cell(a, 2) = Cell(b, 2) /\ Cell(a, 3) = Cell(b, 3)

NamedLiterally(row) == Cell(row, 2) = SUNDAY_SERVICE

MentionsSundayService(row) ==
  /\ Cell(row, 2).t = "string"
  /\ \E i \in 1..Len(Cell(row, 2).s) :
       Cell(row, 2).s[i] \in {"Sunday Service", "sunday service"}

\* C21: an event is keyed by its day exactly when its eventName is the
\* literal "Sunday Service": two such events of one identity count once on
\* one day and twice on two days, and two events of any other name count by
\* their name and id, whatever their days.
C21_DayKeyIffLiteral ==
  pc = "done" =>
    \A p \in EventPairs :
      LET a == results[p[1]]
          b == results[p[2]]
          total == TotalOf(Cell(a, 0).v)
      IN  /\ (NamedLiterally(a) /\ NamedLiterally(b))
               => (total = 1 <=> SameDay(a, b))
          /\ (~NamedLiterally(a) /\ ~NamedLiterally(b) /\ SameEvent(a, b))
               => total = 1

\* C21 as amended: the events keyed by their day are those whose eventName
\* contains "sunday service" in any letter case.
C21_DayKeyIffMentioned ==
  pc = "done" =>
    \A p \in EventPairs :
      LET a == results[p[1]]
          b == results[p[2]]
          total == TotalOf(Cell(a, 0).v)
      IN  /\ (MentionsSundayService(a) /\ MentionsSundayService(b))
               => (total = 1 <=> SameDay(a, b))
          /\ (~MentionsSundayService(a) /\ ~MentionsSundayService(b)
                /\ SameEvent(a, b))
               => total = 1

\* Two events of the same day whose names mention the service in different
\* spellings and whose ids differ count once.
C21_Witness ==
  /\ pc = "done"
  /\ \E p \in EventPairs :
       /\ MentionsSundayService(results[p[1]])
       /\ MentionsSundayService(results[p[2]])
       /\ ~NamedLiterally(results[p[1]])
       /\ ~SameEvent(results[p[1]], results[p[2]])
       /\ TimeOf(results[p[1]]) # TimeOf(results[p[2]])
       /\ SameDay(results[p[1]], results[p[2]])
       /\ TotalOf(Cell(results[p[1]], 0).v) = 1

\* C22: two events of one identity that are not recurring-service events
\* count once in totalUniqueEvents exactly when their eventName and their
\* eventId are the same, whatever their timestamps.
C22_SameKeyIffSameNameAndId ==
  pc = "done" =>
    \A p \in EventPairs :
      LET a == results[p[1]]
          b == results[p[2]]
      IN  (~MentionsSundayService(a) /\ ~MentionsSundayService(b))
            => (TotalOf(Cell(a, 0).v) = 1 <=> SameEvent(a, b))

----------------------------------------------------------------------------
(* The formatter of matchOrAssignBelCodes on sheets of several widths *)

MaxFormatRows == 2

FormatIdCells == {Blank, Str(<<"2">>)}
FormatNameCells == {Str(<<"a">>), Str(<<"b">>)}
FormatEventWidths == {11, 12}
FormatServiceWidths == {7, 8, 10}

\* A cell that names its column, so that a copy from the wrong column shows.
ColumnCell(k) == Str(<<"c">> \o DigitsOf(k))

ShapedRow(w, id, name) ==
  [i \in 1..w |-> IF i = 1 THEN id ELSE IF i = 2 THEN name
                  ELSE ColumnCell(i - 1)]

ShapedRows(w) ==
  {ShapedRow(w, id, name) : id \in FormatIdCells, name \in FormatNameCells}

InitFormat ==
  /\ \E nd \in 0..1, ne \in 0..MaxFormatRows, ns \in 0..MaxFormatRows :
       \E we \in WidthsFor(ne, FormatEventWidths, 11),
          ws \in WidthsFor(ns, FormatServiceWidths, 8) :
         /\ ne + ns <= MaxFormatRows
         /\ dData \in {Sheet(3, r) : r \in [1..nd -> ShapedRows(3)]}
         /\ eData \in {Sheet(we, r) : r \in [1..ne -> ShapedRows(we)]}
         /\ sData \in {Sheet(ws, r) : r \in [1..ns -> ShapedRows(ws)]}
  /\ now = 0
  /\ InitRun
  /\ InitNoExtract
  /\ InitBook

SpecFormat == InitFormat /\ [][Next]_vars

\* The row Step 5 is at, and whether this step has dealt with it.
CurrentRow == attendanceDataRaw[rowIdx]
RowHandled == pc = "step5" /\ rowIdx' = rowIdx + 1 /\ Named(CurrentRow)
ResolvedId == belMap'[normalize(Cell(CurrentRow, 1))]

\* C23: the formatter classifies each named attendance row by its shape.  A
\* row of at least 11 columns is copied as an event: the resolved id, then
\* columns 1 to 10 of the row.  A shorter row of at least 8 columns becomes
\* an event named "Sunday Service" with id "Service", blank phone, form
\* sheet and role, and the row's fifth column as its timestamp.  Any other
\* row emits nothing.  Every emitted event has exactly 11 columns and the
\* resolved id in column 0.
C23_ClassifiedByShape ==
  [][RowHandled =>
       /\ IF Len(CurrentRow) >= 11
          THEN results' = Append(results,
                                 <<Num(ResolvedId)>> \o SubSeq(CurrentRow, 2, 11))
          ELSE IF Len(CurrentRow) >= 8
          THEN /\ Len(results') = Len(results) + 1
               /\ SubSeq(results', 1, Len(results)) = results
               /\ LET event == results'[Len(results')]
                  IN  /\ Cell(event, 0) = Num(ResolvedId)
                      /\ Cell(event, 2) = Str(<<"Sunday Service">>)
                      /\ Cell(event, 3) = Str(<<"Service">>)
                      /\ Cell(event, 7) = Blank
                      /\ Cell(event, 8) = Blank
                      /\ Cell(event, 9) = Blank
                      /\ Cell(event, 10) = CurrentRow[5]
          ELSE results' = results
       /\ \A i \in 1..Len(results') : Len(results'[i]) = 11]_vars

\* A 12-column event row and a 10-column service row have both been emitted.
C23_Witness ==
  /\ pc = "returned"
  /\ eData.width = 12 /\ Len(eData.rows) = 1
  /\ sData.width = 10 /\ Len(sData.rows) = 1
  /\ Len(results) = 2
  /\ Cell(results[1], 10) = ColumnCell(10)
  /\ Cell(results[2], 2) = SUNDAY_SERVICE
  /\ Cell(results[2], 10) = ColumnCell(4)

\* C26: identity resolution comes before shape classification.  A named row
\* that is discarded for its unrecognised structure emits nothing, but its
\* match key is in the mapping afterwards and, if the key was unmapped, it
\* has consumed a generated id: the id is new to the used set and the counter
\* has moved past it.  Every id generated later is at or above the counter,
\* hence higher than it would have been without that row.
C26_DiscardedRowConsumesId ==
  [][/\ (RowHandled /\ Len(CurrentRow) < 8) =>
          LET name == normalize(Cell(CurrentRow, 1))
          IN  /\ results' = results
              /\ Has(belMap', name)
              /\ ~Has(belMap, name) =>
                   /\ belMap'[name] >= codeCounter
                   /\ belMap'[name] \in allUsedCodes' \ allUsedCodes
                   /\ codeCounter' > belMap'[name]
     /\ (pc = "step5" /\ genLog' # genLog) =>
          /\ genLog'[Len(genLog')].code >= codeCounter
          /\ \A g \in 1..Len(genLog) :
               genLog'[Len(genLog')].code > genLog[g].code]_vars

\* Two new names on 7-column rows: nothing is emitted, and the second name
\* has the id after the one the first name consumed.
C26_Witness ==
  /\ pc = "returned"
  /\ sData.width = 7 /\ Len(sData.rows) = 2
  /\ results = <<>>
  /\ Has(belMap, <<"a">>) /\ Has(belMap, <<"b">>)
  /\ Len(genLog) = 2
  /\ genLog[1].code = belMap[<<"a">>]
  /\ genLog[2].code = belMap[<<"b">>]
  /\ belMap[<<"b">>] = belMap[<<"a">>] + 1

\* The candidates from the counter upwards that are in the used set.
RECURSIVE ConsecutiveCollisions(_, _)
ConsecutiveCollisions(counter, used) ==
  IF counter \in used THEN 1 + ConsecutiveCollisions(counter + 1, used) ELSE 0

\* Step 5 is at a named row whose key has no id yet, and calls the generator.
GeneratorCalled ==
  /\ pc = "step5"
  /\ rowIdx <= Len(attendanceDataRaw)
  /\ Named(CurrentRow)
  /\ ~Has(belMap, normalize(Cell(CurrentRow, 1)))

----------------------------------------------------------------------------
(* updateAttendanceStatsSheet on a sheet that an earlier run has filled *)

MaxWriterEvents == 2
MaxWriterSheetRows == 2

WriterPersons ==
  {<<Num(1), Str(<<"a", " ", "b", " ", "d">>)>>, <<Num(2), Str(<<"c">>)>>}

WriterTimestamps == {DateCell(StatsNow), DateCell(StatsNow - MonthTicks)}

WriterRows ==
  {StatsRow(person, <<Str(<<"p">>), Str(<<"1">>)>>, Str(<<"usher">>), ts) :
     person \in WriterPersons, ts \in WriterTimestamps}

\* Rows of the sheet as an earlier run and updateActivityLevels left them:
\* one with a count in K and a label in L, one with K and L blank.
WriterEarlierRows ==
  {[c \in 1..StatsWidth |->
      CASE c = 1 -> Num(9)
        [] c = ColK -> Num(5)
        [] c = ColL -> CORE
        [] OTHER -> Str(<<"o">>)],
   [c \in 1..StatsWidth |->
      CASE c = 1 -> Num(8)
        [] c = ColK -> Blank
        [] c = ColL -> Blank
        [] OTHER -> Str(<<"o">>)]}

InitWriter ==
  /\ results \in SeqsUpTo(WriterRows, MaxWriterEvents)
  /\ statsSheet \in SeqsUpTo(WriterEarlierRows, MaxWriterSheetRows)
  /\ sources = AllPresent
  /\ loader = "part_001"
  /\ activeMembersData = <<>>
  /\ InitDesk
  /\ now = StatsNow
  /\ pc = "returned"
  /\ dData = Sheet(3, <<>>)
  /\ eData = Sheet(11, <<>>)
  /\ sData = Sheet(8, <<>>)
  /\ belMap = EmptyMap
  /\ allUsedCodes = {}
  /\ attendanceDataRaw = <<>>
  /\ highestFoundNum = 0
  /\ codeCounter = 0
  /\ rowIdx = 0
  /\ genLog = <<>>
  /\ summary = <<>>
  /\ run = 1
  /\ appended = FALSE
  /\ prevMap = EmptyMap
  /\ prevSummary = <<>>
  /\ InitNoExtract

NextWriter == Stats \/ WriteStats

SpecWriter == InitWriter /\ [][NextWriter]_vars

\* The cell of the sheet at a row and column, blank beyond the last row.
SheetCell(sheet, i, c) == IF i <= Len(sheet) THEN sheet[i][c] ELSE Blank

\* C24: with n > 0 summaries updateAttendanceStatsSheet writes rows 2..n+1
\* (rows 1..n below the header), columns 1..10, in the order id, fullName,
\* firstName, lastName, quarterCount, monthCount, volunteerCount,
\* lastAttendedDate, lastEventName, totalUniqueEvents, and changes no other
\* cell: not the rows below n+1 that an earlier run left, and not the
\* activity-level columns.  With no summaries it writes nothing.
C24_WritesOnlyItsRange ==
  [][(pc = "done" /\ pc' = "written") =>
       LET n == Len(summary)
       IN  IF n = 0 THEN statsSheet' = statsSheet
           ELSE /\ Len(statsSheet') =
                     (IF n > Len(statsSheet) THEN n ELSE Len(statsSheet))
                /\ \A i \in 1..n :
                     LET parts == Split(summary[i].fullName.s)
                         row == statsSheet'[i]
                     IN  /\ Len(row) = StatsWidth
                         /\ row[1] = Num(summary[i].bel)
                         /\ row[2] = summary[i].fullName
                         /\ row[3] = Str(Head(parts))
                         /\ row[4] = Str(Join(Tail(parts)))
                         /\ row[5] = Num(summary[i].quarter)
                         /\ row[6] = Num(summary[i].month)
                         /\ row[7] = Num(summary[i].volunteer)
                         /\ row[8] = Str(<<"date">> \o
                                DigitsOf(summary[i].lastDate
                                           - (summary[i].lastDate % TicksPerDay)))
                         /\ row[9] = Str(summary[i].lastEvent)
                         /\ row[10] = Num(summary[i].total)
                         /\ \A c \in 11..StatsWidth :
                              row[c] = SheetCell(statsSheet, i, c)
                /\ \A i \in (n + 1)..Len(statsSheet) :
                     statsSheet'[i] = statsSheet[i]]_vars

\* One summary has been written over the first of two earlier rows: the
\* row keeps its count in K and its label in L, and the row below is as the
\* earlier run left it.
C24_Witness ==
  /\ pc = "written"
  /\ Len(summary) = 1
  /\ Len(statsSheet) = 2
  /\ statsSheet[1][1] = Num(1)
  /\ statsSheet[1][3] = Str(<<"a">>)
  /\ statsSheet[1][4] = Str(<<"b", " ", "d">>)
  /\ statsSheet[1][ColK] = Num(5)
  /\ statsSheet[1][ColL] = CORE
  /\ statsSheet[2][1] = Num(8)

----------------------------------------------------------------------------
(* The ids of the registration list against the ids of the stats sheet *)

MaxRegisterEvents == 2

\* A Directory row with the id in column A and the name in column B, as
\* getDirectoryDataMap reads it, and one with the id in column B and the name
\* in column C, as matchOrAssignBelCodes reads it.
RegisterDirRows ==
  {<<Num(1), Str(<<"a">>), Filler>>, <<Filler, Num(1), Str(<<"a">>)>>}

RegisterEventRows ==
  {EventRow(11, id, name, Filler, Filler, Blank, ts) :
     id \in {Blank, Num(2)},
     name \in {Str(<<"b">>), Str(<<"c">>)},
     ts \in {DateCell(RosterNow),
             DateCell(RosterNow - RecentDays * TicksPerDay - 1)}}

RegisterServiceRows == {<<Num(3), Str(<<"c">>)>>}

InitRegister ==
  /\ dData \in {Sheet(3, r) : r \in SeqsUpTo(RegisterDirRows, 1)}
  /\ eData \in {Sheet(11, r) : r \in SeqsUpTo(RegisterEventRows,
                                              MaxRegisterEvents)}
  /\ sData = Sheet(8, <<>>)
  /\ sundayService \in {Sheet(2, r) : r \in SeqsUpTo(RegisterServiceRows, 1)}
  /\ serviceDateValue = Blank
  /\ submits = 0
  /\ statsSheet = <<>>
  /\ sources = AllPresent
  /\ loader = "part_001"
  /\ activeMembersData = <<>>
  /\ now = RosterNow
  /\ InitRun
  /\ InitNoExtract

SpecRegister == InitRegister /\ [][NextRoster]_vars

\* The ids that the three maps of populateRegistrationList hold for names
\* other than the given one.
IdsOfOthers(fullName) ==
  LET maps == <<getDirectoryDataMap, getLocalSheetIdMap(sources.event, eData),
                getLocalSheetIdMap(TRUE, sundayService)>>
  IN  UNION {{maps[k][key].id :
                key \in DOMAIN maps[k] \ {ToUpperCase(fullName)}} : k \in 1..3}

\* C27: in the registration list, an id generated for a person found in
\* none of the directory, Event Attendance and Sunday Service maps is not an
\* id that one of those maps holds for another person, and two different new
\* names of one run have different ids.
C27_GeneratedIdsAreFresh ==
  pc = "listed" =>
    \A m \in 1..Len(activeMembersData) :
      activeMembersData[m].generated =>
        /\ activeMembersData[m].personId
             \notin IdsOfOthers(activeMembersData[m].fullName)
        /\ \A k \in 1..Len(activeMembersData) :
             (activeMembersData[k].generated
                /\ ToUpperCase(activeMembersData[k].fullName)
                     # ToUpperCase(activeMembersData[m].fullName))
               => activeMembersData[k].personId # activeMembersData[m].personId

\* C28: after the stats sheet is written and the registration list is
\* populated from unchanged sources, the id of each person in the list is
\* the id in column A of that person's row of the stats sheet.
C28_ListIdIsStatsId ==
  pc = "listed" =>
    \A m \in 1..Len(activeMembersData) :
      activeMembersData[m].personId
        = JsString(statsSheet[activeMembersData[m].row][1])

----------------------------------------------------------------------------
(* submitRegistrationAttendance: the checked rows go to Service Attendance *)

MaxDeskRows == 2
MaxSubmits == 2

\* Line 516: B2 holds a valid Date.
ValidServiceDate(value) == value.t = "date"

\* Line 552: the box is ticked and the row has a full name.
Attending(row) == row.isChecked /\ Trim(row.fullName) # <<>>

\* Lines 549-576: the nine cells of an entry, for a Directory without an
\* email column.
AttendanceEntry(row, serviceDate, today) ==
  <<Str(row.personId), Str(row.fullName), Str(row.firstName),
    Str(row.lastName), FormatDate(serviceDate), Str(<<"No">>), Blank, Blank,
    DateCell(today)>>

AttendanceEntries(regData, serviceDate, today) ==
  LET attending == SelectSeq(regData, Attending)
  IN  [i \in 1..Len(attending) |->
         AttendanceEntry(attending[i], serviceDate, today)]

\* Lines 585-586: setValues below the last row with data; the sheet is as
\* wide as its widest row.
AppendRows(sheet, entries) ==
  LET w == IF sheet.width > 9 THEN sheet.width ELSE 9
      widen(row) == [c \in 1..w |-> IF c <= Len(row) THEN row[c] ELSE Blank]
  IN  [width |-> w,
       rows |-> [i \in 1..(Len(sheet.rows) + Len(entries)) |->
                   IF i <= Len(sheet.rows) THEN widen(sheet.rows[i])
                   ELSE widen(entries[i - Len(sheet.rows)])]]

ResetChecks_Kept(regData) == regData

\* Line 590: setValue(false) on column E of every row.
ResetChecks(regData) ==
  [i \in 1..Len(regData) |-> [regData[i] EXCEPT !.isChecked = FALSE]]

\* part_000 lines 507-605, on a spreadsheet that has the Sunday Registration
\* sheet.
SubmitRegistrationAttendance ==
  /\ submits < MaxSubmits
  /\ submits' = submits + 1
  /\ LET attendanceEntries ==
           AttendanceEntries(activeMembersData, serviceDateValue.v, now)
         done == /\ ValidServiceDate(serviceDateValue)
                 /\ sources.service
                 /\ activeMembersData # <<>>
                 /\ attendanceEntries # <<>>
     IN  /\ sData' = IF done THEN AppendRows(sData, attendanceEntries)
                     ELSE sData
         /\ activeMembersData' = IF done THEN ResetChecks(activeMembersData)
                                 ELSE activeMembersData
  /\ UNCHANGED <<dData, eData, extractVars, runVars, pipeVars, sources,
                 loader, statsSheet, sundayService, serviceDateValue>>

DeskRows ==
  {[row |-> 0, personId |-> <<"1">>, fullName |-> name, firstName |-> name,
    lastName |-> <<>>, isChecked |-> checked, generated |-> FALSE] :
     name \in {<<"a">>, <<" ">>, <<>>}, checked \in BOOLEAN}

DeskDates == {DateCell(RosterNow), Blank, Str(<<"n", "/", "a">>)}

InitSubmit ==
  /\ activeMembersData \in SeqsUpTo(DeskRows, MaxDeskRows)
  /\ serviceDateValue \in DeskDates
  /\ sources \in {AllPresent, [AllPresent EXCEPT !.service = FALSE]}
  /\ sData \in {Sheet(8, r) :
                  r \in IF sources.service
                        THEN SeqsUpTo({ServiceRow(8, Num(1), Str(<<"a">>),
                                                  DateCell(0))}, 1)
                        ELSE {<<>>}}
  /\ dData = Sheet(3, <<>>)
  /\ eData = Sheet(11, <<>>)
  /\ sundayService = Sheet(2, <<>>)
  /\ submits = 0
  /\ statsSheet = <<>>
  /\ loader = "part_001"
  /\ now = RosterNow
  /\ InitRun
  /\ InitNoExtract

SpecSubmit == InitSubmit /\ [][SubmitRegistrationAttendance]_vars

\* This step is a call of submitRegistrationAttendance.
Submitting == submits' = submits + 1

\* The rows of the registration sheet that are checked and have a name.
CheckedAndNamed ==
  {i \in 1..Len(activeMembersData) :
     /\ activeMembersData[i].isChecked
     /\ Trim(activeMembersData[i].fullName) # <<>>}

\* What a submit with a valid date must do to Service Attendance: one row
\* per checked and named registration row, below the rows it had.
AppendsOnePerChecked ==
  /\ Len(sData'.rows) = Len(sData.rows) + Cardinality(CheckedAndNamed)
  /\ \A i \in 1..Len(sData.rows), c \in 1..sData.width :
       sData'.rows[i][c] = sData.rows[i][c]
  /\ \A k \in 1..Cardinality(CheckedAndNamed) :
       \E i \in CheckedAndNamed :
         /\ Cardinality({j \in CheckedAndNamed : j <= i}) = k
         /\ sData'.rows[Len(sData.rows) + k][2]
              = Str(activeMembersData[i].fullName)
         /\ sData'.rows[Len(sData.rows) + k][1]
              = Str(activeMembersData[i].personId)

AllUnchecked ==
  \A i \in 1..Len(activeMembersData') : ~activeMembersData'[i].isChecked

NoRowChecked ==
  \A i \in 1..Len(activeMembersData) : ~activeMembersData[i].isChecked

\* C30 as stated: a submit with a valid service date appends one row per
\* registration row that is checked and has a full name, and then resets
\* every checkbox, so that a second submit right after it appends nothing;
\* with no row checked, or an invalid date, Service Attendance is unchanged.
C30_SubmitResetsEveryCheckbox ==
  [][Submitting =>
       /\ (ValidServiceDate(serviceDateValue) /\ sources.service) =>
            (AppendsOnePerChecked /\ AllUnchecked)
       /\ submits >= 1 => sData' = sData
       /\ (NoRowChecked \/ ~ValidServiceDate(serviceDateValue)) =>
            sData' = sData]_vars

\* C30, amended: a submit with a valid service date appends one row per
\* registration row that is checked and has a full name and then, if it
\* appended a row, resets every checkbox; a second submit right after it
\* appends nothing; with no row checked, or an invalid date, Service
\* Attendance is unchanged.
C30_SubmitResetsAfterAppend ==
  [][Submitting =>
       /\ (ValidServiceDate(serviceDateValue) /\ sources.service) =>
            /\ AppendsOnePerChecked
            /\ CheckedAndNamed # {} => AllUnchecked
       /\ submits >= 1 => sData' = sData
       /\ (NoRowChecked \/ ~ValidServiceDate(serviceDateValue)) =>
            sData' = sData]_vars

\* Two submits have run on a list of a checked row with a name and a checked
\* row without one: one row was appended below the row the sheet had, and
\* every box is cleared.
C30_Witness ==
  /\ submits = 2
  /\ Len(activeMembersData) = 2
  /\ activeMembersData[1].fullName = <<"a">>
  /\ activeMembersData[2].fullName = <<>>
  /\ \A i \in 1..2 : ~activeMembersData[i].isChecked
  /\ Len(sData.rows) = 2
  /\ sData.width = 9
  /\ sData.rows[2][2] = Str(<<"a">>)
  /\ sData.rows[2][5] = FormatDate(RosterNow)

====
